---- MODULE Spec2Model ----
(***************************************************************************)
(* Model of the schema-driven validation engine of embedded-config-parser  *)
(* (src/validator.py, with the configuration classes of src/parser.py).    *)
(*                                                                         *)
(* Python strings are modelled as sequences of tokens (a token is a        *)
(* character or a fixed piece of text), so that an f-string is the         *)
(* concatenation of its pieces.  A Python value that is not a string where *)
(* a string is expected (an int read from YAML, None) is the token         *)
(* sequence NoneVal or IntVal; an operation the interpreter would refuse   *)
(* on it raises, and raising is modelled by the `raised` field of the run  *)
(* state, which holds str(e) of the exception.                             *)
(***************************************************************************)
EXTENDS Integers, Sequences, FiniteSets, TLC

VARIABLES
    results,        \* ValidationResult objects under test: id -> [is_valid, messages]
    pin_mappings,   \* PinConflictDetector.pin_mappings : pin -> PinMapping
    conflicts,      \* PinConflictDetector.conflicts : sequence of <<existing, new>>
    history,        \* log of the mappings passed to add_pin_usage since
                    \* construction or the last clear()
    last_call,      \* the last operation called on an object under test: its
                    \* name, arguments, the object(s) before the call, and the
                    \* value returned
    mcu_specs_cache,\* SchemaBasedMCUDatabase.mcu_specs_cache
    run_config,     \* the configuration object given to the last validate, as the call left it
    run_env,        \* what the schema files answered in that call
    final_result,   \* the ValidationResult that call returned
    checker_out,    \* the run of each of the four checkers in that call
    runs,           \* number of validate calls made on the ConfigValidator
    threads         \* the validate calls in progress on one ConfigValidator
                    \* from several threads: thread -> its local variables

runVars == <<mcu_specs_cache, run_config, run_env, final_result, checker_out, runs>>
vars == <<results, pin_mappings, conflicts, history, last_call,
          mcu_specs_cache, run_config, run_env, final_result, checker_out, runs,
          threads>>

(***************************************************************************)
(* Bounds of the model                                                     *)
(***************************************************************************)
MaxMsgs == 3        \* messages held by one ValidationResult under test
MaxCalls == 4       \* detector calls explored since construction
MaxGpio == 2        \* GPIO entries of an explored configuration
MaxRuns == 2        \* validate calls made on one ConfigValidator

(***************************************************************************)
(* Let1(F, x): F applied to the value of x.  x is evaluated once, however  *)
(* often F uses its argument (a local variable of the Python code that is  *)
(* assigned once and read several times).                                  *)
(***************************************************************************)
Let1(F(_), x) == CHOOSE r \in { F(v) : v \in {x} } : TRUE

(***************************************************************************)
(* ValidationLevel, ValidationMessage, ValidationResult                    *)
(***************************************************************************)
ERROR == "error"
WARNING == "warning"
INFO == "info"

ValidationMessage(level, message, location, category, suggestion) ==
    [level |-> level, message |-> message, location |-> location,
     category |-> category, suggestion |-> suggestion]

\* ValidationResult(): is_valid = True, messages = []
NewResult == [is_valid |-> TRUE, messages |-> <<>>]

\* the errors / warnings / info_messages properties
OfLevel(r, level) == SelectSeq(r.messages, LAMBDA m : m.level = level)

has_errors(r) == Len(OfLevel(r, ERROR)) > 0

has_warnings(r) == Len(OfLevel(r, WARNING)) > 0

add_error_keeps_valid(r, message, location, category, suggestion) ==
    [r EXCEPT !.messages = Append(@,
        ValidationMessage(ERROR, message, location, category, suggestion))]

add_error(r, message, location, category, suggestion) ==
    [is_valid |-> FALSE,
     messages |-> Append(r.messages,
        ValidationMessage(ERROR, message, location, category, suggestion))]

add_warning(r, message, location, category, suggestion) ==
    [r EXCEPT !.messages = Append(@,
        ValidationMessage(WARNING, message, location, category, suggestion))]

add_info(r, message, location, category, suggestion) ==
    [r EXCEPT !.messages = Append(@,
        ValidationMessage(INFO, message, location, category, suggestion))]

merge_prepends(self, other) ==
    [is_valid |-> IF ~other.is_valid THEN FALSE ELSE self.is_valid,
     messages |-> other.messages \o self.messages]

\* self.messages.extend(other.messages); if not other.is_valid: self.is_valid = False
merge(self, other) ==
    [is_valid |-> IF ~other.is_valid THEN FALSE ELSE self.is_valid,
     messages |-> self.messages \o other.messages]

(***************************************************************************)
(* PinMapping and PinConflictDetector                                      *)
(***************************************************************************)
PinMapping(pin, usage_type, peripheral, config_location) ==
    [pin |-> pin, usage_type |-> usage_type, peripheral |-> peripheral,
     config_location |-> config_location]

\* PinConflictDetector(): no owner, no conflict
NewDetector == [pin_mappings |-> <<>>, conflicts |-> <<>>]

\* `mapping.pin in self.pin_mappings`
Owned(d, pin) == pin \in DOMAIN d.pin_mappings

\* the conflict branch: existing = pin_mappings[pin]; conflicts.append((existing, mapping))
RecordConflict(d, mapping) ==
    [d EXCEPT !.conflicts = Append(@, <<d.pin_mappings[mapping.pin], mapping>>)]

\* the free branch: pin_mappings[pin] = mapping
StoreOwner(d, mapping) ==
    [d EXCEPT !.pin_mappings =
        [p \in (DOMAIN @) \cup {mapping.pin} |->
            IF p = mapping.pin THEN mapping ELSE @[p]]]

add_pin_usage_overwrites(d, mapping) ==
    IF Owned(d, mapping.pin)
    THEN [det |-> StoreOwner(RecordConflict(d, mapping), mapping), ret |-> TRUE]
    ELSE [det |-> StoreOwner(d, mapping), ret |-> FALSE]

\* add_pin_usage: the detector after the call and the value returned
add_pin_usage(d, mapping) ==
    IF Owned(d, mapping.pin)
    THEN [det |-> RecordConflict(d, mapping), ret |-> TRUE]
    ELSE [det |-> StoreOwner(d, mapping), ret |-> FALSE]

get_conflicts(d) == d.conflicts

clear_keeps_owners(d) == [d EXCEPT !.conflicts = <<>>]

\* clear: pin_mappings.clear(); conflicts.clear()
clear(d) == [pin_mappings |-> <<>>, conflicts |-> <<>>]

\* the detector object held in the variables
Detector == [pin_mappings |-> pin_mappings, conflicts |-> conflicts]

(***************************************************************************)
(* Python values                                                           *)
(*   a str is a sequence of tokens; '' is <<>>                             *)
(*   NoneVal  : None where a str is expected (TimerConfig.output_pin)      *)
(*   IntVal   : a non-zero int where a str is expected (YAML `pin: 12`)    *)
(*   Num(n)   : an int; StrNum : a str where a number is expected          *)
(*              (YAML `clock_frequency: "168MHz"`); NoneNum : None         *)
(***************************************************************************)
NoneVal == <<"<None>">>
IntVal == <<"<int>">>

IsStr(x) == x # NoneVal /\ x # IntVal

\* type(x).__name__ of a value that is a str, None or an int
TypeName(x) == IF x = NoneVal THEN "NoneType" ELSE IF x = IntVal THEN "int" ELSE "str"

\* Python truthiness of a str / None / non-zero int: `not x`
Falsy(x) == x = <<>> \/ x = NoneVal

Num(n) == [kind |-> "int", v |-> n]
StrNum == [kind |-> "str", v |-> 0]
NoneNum == [kind |-> "none", v |-> 0]

IsNum(x) == x.kind = "int"

\* type(x).__name__ of a number-or-not
NumTypeName(x) == IF x.kind = "none" THEN "NoneType" ELSE x.kind

\* str(e) of the TypeError of `x < n` / `x > n` for an x that is no number
CompareErrorText(op, x) ==
    <<"'", op, "' not supported between instances of '", NumTypeName(x),
      "' and 'int'">>

\* str(e) of the error of f"{x:02X}" for an x that is no number
FormatErrorText(x) ==
    IF x.kind = "str" THEN <<"Unknown format code 'X' for object of type 'str'">>
    ELSE <<"unsupported format string passed to NoneType.__format__">>

Digits == <<"0", "1", "2", "3", "4", "5", "6", "7", "8", "9">>

IsDigit(c) == \E i \in 1..10 : Digits[i] = c

DigitVal(c) == (CHOOSE i \in 1..10 : Digits[i] = c) - 1

RECURSIVE StripLeft(_)
StripLeft(s) == IF s # <<>> /\ Head(s) = " " THEN StripLeft(Tail(s)) ELSE s

RECURSIVE StripRight(_)
StripRight(s) ==
    IF s # <<>> /\ s[Len(s)] = " " THEN StripRight(SubSeq(s, 1, Len(s) - 1)) ELSE s

\* the digits of an int literal: digits, single underscores only between digits
DigitsOk(s) ==
    /\ s # <<>>
    /\ \A i \in 1..Len(s) : IsDigit(s[i]) \/ s[i] = "_"
    /\ s[1] # "_" /\ s[Len(s)] # "_"
    /\ \A i \in 1..(Len(s) - 1) : ~(s[i] = "_" /\ s[i + 1] = "_")

RECURSIVE DigitsValue(_, _)
DigitsValue(s, acc) ==
    IF s = <<>> THEN acc
    ELSE IF Head(s) = "_" THEN DigitsValue(Tail(s), acc)
    ELSE DigitsValue(Tail(s), 10 * acc + DigitVal(Head(s)))

\* int(s) for a str s: surrounding blanks stripped, an optional sign, then
\* the digits; ok = FALSE is ValueError
PyInt(s) ==
    LET t == StripRight(StripLeft(s))
        signed == t # <<>> /\ (t[1] = "+" \/ t[1] = "-")
        body == IF signed THEN Tail(t) ELSE t
    IN  IF DigitsOk(body)
        THEN [ok |-> TRUE,
              v |-> IF signed /\ t[1] = "-" THEN 0 - DigitsValue(body, 0)
                    ELSE DigitsValue(body, 0)]
        ELSE [ok |-> FALSE, v |-> 0]

\* str.lower() on the letters the model uses
LowerTok(c) ==
    CASE c = "F" -> "f"
      [] c = "X" -> "x"
      [] c = "Z" -> "z"
      [] c = "V" -> "v"
      [] c = "G" -> "g"
      [] OTHER -> c

Lower(s) == [i \in 1..Len(s) |-> LowerTok(s[i])]

\* format(n, ','): decimal digits in groups of three joined by commas
RECURSIVE FmtComma(_)
FmtComma(n) ==
    IF n < 1000 THEN <<ToString(n)>>
    ELSE LET r == n % 1000
             pad == IF r < 10 THEN <<"0", "0">> ELSE IF r < 100 THEN <<"0">> ELSE <<>>
         IN  FmtComma(n \div 1000) \o <<",">> \o pad \o <<ToString(r)>>

\* ', '.join(list of str)
RECURSIVE Join(_, _)
Join(sep, parts) ==
    IF parts = <<>> THEN <<>>
    ELSE IF Len(parts) = 1 THEN parts[1]
    ELSE parts[1] \o sep \o Join(sep, Tail(parts))

(***************************************************************************)
(* Pins and identifiers used by the configurations explored                *)
(***************************************************************************)
PA0 == <<"P", "A", "0">>
PA1 == <<"P", "A", "1">>
PZ0 == <<"P", "Z", "0">>

KnownMcu == <<"F", "4", "V", "G">>
UnknownMcu == <<"Z", "9">>

(***************************************************************************)
(* SchemaBasedMCUDatabase                                                  *)
(*   A schema document is a record holding the keys the JSON document     *)
(*   has.  mcu_specs_cache is a dict, modelled as the sequence of its      *)
(*   <<pattern, specs>> items in insertion order.                          *)
(***************************************************************************)
\* dict.get(key, default)
Get(doc, key, default) == IF key \in DOMAIN doc THEN doc[key] ELSE default

DefaultMaxPinIndex == 15
DefaultUartCount == 6
DefaultI2cCount == 3
DefaultSpiCount == 6
DefaultTimerCount == 14
DefaultMaxClock == 200000000
DefaultMinVoltage == 1800      \* 1.8 V, voltages are in millivolts
DefaultMaxVoltage == 5500      \* 5.5 V
DefaultPinCount == 0
DefaultMaxPins == 16

\* the `except` branch of _extract_specs_from_schema
FallbackPorts == <<"A", "B", "C", "D", "E">>

FallbackSpecs(schema) ==
    [gpio_ports |-> FallbackPorts,
     max_pins_per_port |->
        [i \in 1..Len(FallbackPorts) |-> <<FallbackPorts[i], DefaultMaxPins>>],
     uart_count |-> DefaultUartCount, i2c_count |-> DefaultI2cCount,
     spi_count |-> DefaultSpiCount, timer_count |-> DefaultTimerCount,
     max_clock |-> DefaultMaxClock,
     min_voltage |-> DefaultMinVoltage, max_voltage |-> DefaultMaxVoltage,
     package_type |-> <<"Unknown">>, pin_count |-> DefaultPinCount,
     schema_file |-> schema.stem]

\* _extract_specs_from_schema: gpio_ports is the sequence of the items of
\* package_constraints.gpio_ports, <<port, max>> or <<port>> when the port
\* gives no max.  A document one of whose constraint fields is not a JSON
\* object (constraints_not_object) makes a .get raise inside the try, and
\* the except branch answers.
_extract_specs_from_schema(schema) ==
    IF Get(schema, "constraints_not_object", FALSE) THEN FallbackSpecs(schema)
    ELSE
    LET ports == Get(schema, "gpio_ports", <<>>) IN
    [gpio_ports |-> [i \in 1..Len(ports) |-> ports[i][1]],
     max_pins_per_port |->
        [i \in 1..Len(ports) |->
            <<ports[i][1],
              (IF Len(ports[i]) < 2 THEN DefaultMaxPinIndex ELSE ports[i][2]) + 1>>],
     uart_count |-> Get(schema, "uart_count", DefaultUartCount),
     i2c_count |-> Get(schema, "i2c_count", DefaultI2cCount),
     spi_count |-> Get(schema, "spi_count", DefaultSpiCount),
     timer_count |-> Get(schema, "timer_count", DefaultTimerCount),
     max_clock |-> Get(schema, "max_clock", DefaultMaxClock),
     min_voltage |-> Get(schema, "min_voltage", DefaultMinVoltage),
     max_voltage |-> Get(schema, "max_voltage", DefaultMaxVoltage),
     package_type |-> Get(schema, "package_type", <<"Unknown">>),
     pin_count |-> Get(schema, "pin_count", DefaultPinCount),
     schema_file |-> schema.stem]

\* dict assignment cache[key] = value: a new key is appended, an old one
\* keeps its place
DictSet(items, key, value) ==
    IF \E i \in 1..Len(items) : items[i][1] = key
    THEN [i \in 1..Len(items) |->
            IF items[i][1] = key THEN <<key, value>> ELSE items[i]]
    ELSE Append(items, <<key, value>>)

\* the `for pattern in mcu_patterns` loop on the loader state [cache, log,
\* failed]: pattern.lower() of a pattern that is not a str raises, which ends
\* the loop with the patterns before it stored
RECURSIVE StorePatterns(_, _, _)
StorePatterns(st, patterns, specs) ==
    IF patterns = <<>> THEN st
    ELSE IF ~IsStr(Head(patterns)) THEN [st EXCEPT !.failed = TRUE]
    ELSE StorePatterns([st EXCEPT !.cache = DictSet(@, Lower(Head(patterns)), specs)],
                       Tail(patterns), specs)

LoadedLine(doc) ==
    <<"Loaded MCU specs for ">> \o doc.stem \o <<": ">>
        \o <<ToString(Len(Get(doc, "mcu_patterns", <<>>)))>> \o <<" patterns">>

WarningLine(doc) ==
    <<"Warning: Could not load schema ">> \o doc.stem \o <<".json", ": ", "<exception>">>

\* the body of the loop of _load_all_schemas for one document: a document
\* that cannot be read or parsed (wellformed = FALSE) raises in the try, as
\* does a pattern that is not a str; the except prints a warning and the
\* loop goes on
LoadDoc(st, doc) ==
    IF ~doc.wellformed THEN [st EXCEPT !.log = Append(@, WarningLine(doc))]
    ELSE Let1(LAMBDA s :
                IF s.failed
                THEN [s EXCEPT !.failed = FALSE, !.log = Append(@, WarningLine(doc))]
                ELSE [s EXCEPT !.log = Append(@, LoadedLine(doc))],
              StorePatterns(st, Get(doc, "mcu_patterns", <<>>),
                            _extract_specs_from_schema(doc)))

RECURSIVE LoadAll(_, _)
LoadAll(st, docs) ==
    IF docs = <<>> THEN st ELSE LoadAll(LoadDoc(st, Head(docs)), Tail(docs))

\* _load_all_schemas over the documents in the order glob yields them: the
\* cache it leaves
_load_all_schemas(cache, docs) ==
    LoadAll([cache |-> cache, log |-> <<>>, failed |-> FALSE], docs).cache

\* re.match("^" + regex + "$", s) for the regex made of the pattern with
\* '*' -> '.*' and '?' -> '.'; a '.' of the pattern itself is left as the
\* regex metacharacter
RECURSIVE _match_pattern(_, _)
_match_pattern(mcu_type, pattern) ==
    IF pattern = <<>> THEN mcu_type = <<>>
    ELSE IF Head(pattern) = "*"
         THEN \E k \in 0..Len(mcu_type) :
                _match_pattern(SubSeq(mcu_type, k + 1, Len(mcu_type)), Tail(pattern))
    ELSE IF mcu_type = <<>> THEN FALSE
    ELSE /\ (Head(pattern) = "?" \/ Head(pattern) = "." \/ Head(pattern) = Head(mcu_type))
         /\ _match_pattern(Tail(mcu_type), Tail(pattern))

\* find_mcu_specs returning None
NoSpecs == [schema_file |-> <<>>]

\* find_mcu_specs: the specs of the first cache item whose pattern matches
find_mcu_specs(cache, mcu_type) ==
    LET mcu_lower == Lower(mcu_type)
        hits == { i \in 1..Len(cache) : _match_pattern(mcu_lower, cache[i][1]) }
    IN  IF hits = {} THEN NoSpecs
        ELSE cache[CHOOSE i \in hits : \A j \in hits : i <= j][2]

\* `if not mcu_specs`
Found(specs) == specs.schema_file # <<>>

\* the values the explored schema document gives
DocValues ==
    [MaxPinIndex |-> 1,
     MaxClock |-> 180000000,
     MinVoltage |-> 1800,
     MaxVoltage |-> 3600,
     UartCount |-> 1,
     I2cCount |-> 1,
     SpiCount |-> 1,
     TimerCount |-> 1,
     PinCount |-> 100]

\* the schema documents of the explored schema directory
SchemaDocs ==
    << [stem |-> <<"F4">>, wellformed |-> TRUE,
        mcu_patterns |-> << <<"F", "4", "*">> >>,
        gpio_ports |-> << <<"A", DocValues.MaxPinIndex>>, <<"B">> >>,
        uart_count |-> DocValues.UartCount, i2c_count |-> DocValues.I2cCount,
        spi_count |-> DocValues.SpiCount, timer_count |-> DocValues.TimerCount,
        max_clock |-> DocValues.MaxClock,
        min_voltage |-> DocValues.MinVoltage, max_voltage |-> DocValues.MaxVoltage,
        package_type |-> <<"LQFP100">>, pin_count |-> DocValues.PinCount] >>

(***************************************************************************)
(* SchemaBasedPinValidator                                                 *)
(*   A run of the pin checker is carried by a run state                    *)
(*     [result, det, calls, raised]                                        *)
(*   result : the ValidationResult being built, det : the validator's      *)
(*   conflict detector, calls : the mappings passed to add_pin_usage,      *)
(*   raised : <<>> or str(e) of the exception that ended the run.          *)
(***************************************************************************)
\* max_pins_per_port.get(port, 16)
MaxPinsFor(specs, port) ==
    LET hits == { i \in 1..Len(specs.max_pins_per_port) :
                    specs.max_pins_per_port[i][1] = port }
    IN  IF hits = {} THEN DefaultMaxPins
        ELSE specs.max_pins_per_port[CHOOSE i \in hits : TRUE][2]

\* _validate_pin_against_schema: "true", "false", or "raise" (len() of a
\* value that is not a str raises TypeError)
_validate_pin_against_schema(pin, mcu_specs) ==
    IF ~IsStr(pin) THEN "raise"
    ELSE IF Len(pin) < 2 \/ pin[1] # "P" THEN "false"
    ELSE LET port == pin[2]
             pin_num == PyInt(SubSeq(pin, 3, Len(pin)))
         IN  IF ~pin_num.ok THEN "false"
             ELSE IF ~(\E i \in 1..Len(mcu_specs.gpio_ports) :
                            mcu_specs.gpio_ports[i] = port) THEN "false"
             ELSE IF 0 <= pin_num.v /\ pin_num.v < MaxPinsFor(mcu_specs, port)
                  THEN "true" ELSE "false"

\* a declared pin of a peripheral: `skip_empty` is the collector's
\* `if not pin: continue`
PinClaim(pin, skip_empty, usage_type, peripheral, location, invalid_text) ==
    [pin |-> pin, skip_empty |-> skip_empty, usage_type |-> usage_type,
     peripheral |-> peripheral, location |-> location,
     invalid_text |-> invalid_text]

CollectPinBody_registers_invalid(st, c, mcu_specs) ==
    IF st.raised # <<>> THEN st
    ELSE IF c.skip_empty /\ Falsy(c.pin) THEN st
    ELSE LET v == _validate_pin_against_schema(c.pin, mcu_specs)
             m == PinMapping(c.pin, c.usage_type, c.peripheral, c.location)
         IN
         IF v = "raise"
         THEN [st EXCEPT !.raised =
                    <<"object of type '", TypeName(c.pin), "' has no len()">>]
         ELSE IF v = "false"
         THEN [st EXCEPT !.result =
                add_error(@, c.invalid_text \o c.pin, c.location, "pin_format", <<>>),
                         !.det = add_pin_usage(@, m).det, !.calls = Append(@, m)]
         ELSE [st EXCEPT !.det = add_pin_usage(@, m).det, !.calls = Append(@, m)]

\* the body of a collector's loop for one declared pin: skip, report a
\* pin_format error, or register the usage
CollectPinBody(st, c, mcu_specs) ==
    IF st.raised # <<>> THEN st
    ELSE IF c.skip_empty /\ Falsy(c.pin) THEN st
    ELSE LET v == _validate_pin_against_schema(c.pin, mcu_specs) IN
         IF v = "raise"
         THEN [st EXCEPT !.raised =
                    <<"object of type '", TypeName(c.pin), "' has no len()">>]
         ELSE IF v = "false"
         THEN [st EXCEPT !.result =
                add_error(@, c.invalid_text \o c.pin, c.location, "pin_format",
                          <<"Use pins from available ports: ">>
                          \o Join(<<", ">>,
                                  [i \in 1..Len(mcu_specs.gpio_ports) |->
                                        <<mcu_specs.gpio_ports[i]>>]))]
         ELSE LET m == PinMapping(c.pin, c.usage_type, c.peripheral, c.location) IN
              [st EXCEPT !.det = add_pin_usage(@, m).det, !.calls = Append(@, m)]

CollectPin(st, c, mcu_specs) ==
    Let1(LAMBDA s : Let1(LAMBDA cv : CollectPinBody(s, cv, mcu_specs), c), st)

RECURSIVE CollectPins(_, _, _)
CollectPins(st, claims, mcu_specs) ==
    IF claims = <<>> THEN st
    ELSE CollectPins(CollectPin(st, Head(claims), mcu_specs), Tail(claims), mcu_specs)

RECURSIVE Flatten(_)
Flatten(seqs) == IF seqs = <<>> THEN <<>> ELSE Head(seqs) \o Flatten(Tail(seqs))

GpioClaims(config) ==
    [i \in 1..Len(config.gpio) |->
        PinClaim(config.gpio[i].pin, FALSE, "GPIO",
                 <<"GPIO (">> \o config.gpio[i].direction \o <<")">>,
                 <<"gpio[", ToString(i - 1), "]">>,
                 <<"Invalid GPIO pin: ">>)]

_collect_gpio_pins(st, config, mcu_specs) ==
    CollectPins(st, GpioClaims(config), mcu_specs)

UartClaims(config) ==
    Flatten([i \in 1..Len(config.uart) |->
        LET uart == config.uart[i]
            claim(pin_type, pin) ==
                PinClaim(pin, TRUE, "UART",
                         <<"UART ">> \o uart.name \o <<" ", pin_type>>,
                         <<"uart.">> \o uart.name,
                         <<"Invalid UART ">> \o uart.name \o <<" ", pin_type, " pin: ">>)
        IN  IF ~uart.enabled THEN <<>>
            ELSE <<claim("TX", uart.tx_pin), claim("RX", uart.rx_pin)>>])

_collect_uart_pins(st, config, mcu_specs) ==
    CollectPins(st, UartClaims(config), mcu_specs)

I2cClaims(config) ==
    Flatten([i \in 1..Len(config.i2c) |->
        LET i2c == config.i2c[i]
            claim(pin_type, pin) ==
                PinClaim(pin, FALSE, "I2C",
                         <<"I2C ">> \o i2c.name \o <<" ", pin_type>>,
                         <<"i2c.">> \o i2c.name,
                         <<"Invalid I2C ">> \o i2c.name \o <<" ", pin_type, " pin: ">>)
        IN  IF ~i2c.enabled THEN <<>>
            ELSE <<claim("SCL", i2c.scl_pin), claim("SDA", i2c.sda_pin)>>])

_collect_i2c_pins(st, config, mcu_specs) ==
    CollectPins(st, I2cClaims(config), mcu_specs)

SpiClaims(config) ==
    Flatten([i \in 1..Len(config.spi) |->
        LET spi == config.spi[i]
            claim(pin_type, pin) ==
                PinClaim(pin, TRUE, "SPI",
                         <<"SPI ">> \o spi.name \o <<" ", pin_type>>,
                         <<"spi.">> \o spi.name,
                         <<"Invalid SPI ">> \o spi.name \o <<" ", pin_type, " pin: ">>)
        IN  IF ~spi.enabled THEN <<>>
            ELSE <<claim("SCK", spi.sck_pin), claim("MISO", spi.miso_pin),
                   claim("MOSI", spi.mosi_pin)>>
                 \o [k \in 1..Len(spi.cs_pins) |->
                        claim("CS" \o ToString(k - 1), spi.cs_pins[k])]])

_collect_spi_pins(st, config, mcu_specs) ==
    CollectPins(st, SpiClaims(config), mcu_specs)

TimerClaims_any_timer(config) ==
    Flatten([i \in 1..Len(config.timers) |->
        LET timer == config.timers[i] IN
        IF timer.mode # "pwm" \/ Falsy(timer.output_pin) THEN <<>>
        ELSE << PinClaim(timer.output_pin, FALSE, "Timer PWM",
                         <<"Timer ">> \o timer.name \o <<" PWM">>,
                         <<"timers.">> \o timer.name,
                         <<"Invalid Timer ">> \o timer.name \o <<" PWM pin: ">>) >>])

TimerClaims(config) ==
    Flatten([i \in 1..Len(config.timers) |->
        LET timer == config.timers[i] IN
        IF ~timer.enabled \/ timer.mode # "pwm" \/ Falsy(timer.output_pin) THEN <<>>
        ELSE << PinClaim(timer.output_pin, FALSE, "Timer PWM",
                         <<"Timer ">> \o timer.name \o <<" PWM">>,
                         <<"timers.">> \o timer.name,
                         <<"Invalid Timer ">> \o timer.name \o <<" PWM pin: ">>) >>])

_collect_timer_pins(st, config, mcu_specs) ==
    CollectPins(st, TimerClaims(config), mcu_specs)

\* the error reported for one conflict pair
ConflictMessage(existing, new) ==
    ValidationMessage(ERROR,
        <<"Pin ">> \o existing.pin \o <<" used by both ">> \o existing.peripheral
            \o <<" and ">> \o new.peripheral,
        <<"pin_conflicts">>, "pin_conflict",
        <<"Use different pins for ">> \o existing.peripheral
            \o <<" and ">> \o new.peripheral)

RECURSIVE ReportConflicts(_, _)
ReportConflicts(result, pairs) ==
    IF pairs = <<>> THEN result
    ELSE ReportConflicts(
            Let1(LAMBDA m : add_error(result, m.message, m.location, m.category,
                                      m.suggestion),
                 ConflictMessage(Head(pairs)[1], Head(pairs)[2])),
            Tail(pairs))

NoSchemaText(mcu) == <<"No schema found for MCU: ">> \o mcu

NoSchemaResult_warns(st0, mcu) ==
    [st0 EXCEPT !.result =
        add_warning(@, NoSchemaText(mcu), <<"board.mcu">>, "schema_missing",
                    <<"Add appropriate schema file for this MCU">>)]

\* the `if not mcu_specs` branch of the pin checker: one error, then return
NoSchemaResult(st0, mcu) ==
    [st0 EXCEPT !.result =
        add_error(@, NoSchemaText(mcu), <<"board.mcu">>, "schema_missing",
                  <<"Add appropriate schema file for this MCU">>)]

\* the end of validate: one error per conflict pair, unless a collector raised
ReportAll(s5) ==
    IF s5.raised # <<>> THEN s5
    ELSE [s5 EXCEPT !.result = ReportConflicts(@, get_conflicts(s5.det))]

CollectAll_reports_early(st0, config, mcu_specs) ==
    _collect_timer_pins(
     _collect_spi_pins(
      _collect_i2c_pins(
       ReportAll(
        _collect_uart_pins(
         _collect_gpio_pins(st0, config, mcu_specs),
         config, mcu_specs)), config, mcu_specs),
      config, mcu_specs), config, mcu_specs)

CollectAll_uart_first(st0, config, mcu_specs) ==
    _collect_timer_pins(
     _collect_spi_pins(
      _collect_i2c_pins(
       _collect_gpio_pins(
        _collect_uart_pins(st0, config, mcu_specs),
        config, mcu_specs), config, mcu_specs),
      config, mcu_specs), config, mcu_specs)

\* the five collectors in the order validate calls them
CollectAll(st0, config, mcu_specs) ==
    _collect_timer_pins(
     _collect_spi_pins(
      _collect_i2c_pins(
       _collect_uart_pins(
        _collect_gpio_pins(st0, config, mcu_specs),
        config, mcu_specs), config, mcu_specs),
      config, mcu_specs), config, mcu_specs)

\* validate after the detector was prepared: look the MCU up, collect, report
PinValidateFrom(st0, cache, config) ==
    Let1(LAMBDA mcu_specs :
            IF ~Found(mcu_specs) THEN NoSchemaResult(st0, config.board.mcu)
            ELSE Let1(LAMBDA s5 : ReportAll(s5), CollectAll(st0, config, mcu_specs)),
         find_mcu_specs(cache, config.board.mcu))

PinValidate_no_clear(cache, det, config) ==
    PinValidateFrom([result |-> NewResult, det |-> det, calls |-> <<>>,
                     raised |-> <<>>], cache, config)

\* SchemaBasedPinValidator.validate on the validator's detector `det`
PinValidate(cache, det, config) ==
    PinValidateFrom([result |-> NewResult, det |-> clear(det), calls |-> <<>>,
                     raised |-> <<>>], cache, config)

(***************************************************************************)
(* EmbeddedConfig.get_enabled_peripheral_count                             *)
(***************************************************************************)
EnabledCount(entries) == Len(SelectSeq(entries, LAMBDA x : x.enabled))

get_enabled_peripheral_count(config) ==
    [uart |-> EnabledCount(config.uart), i2c |-> EnabledCount(config.i2c),
     spi |-> EnabledCount(config.spi), timers |-> EnabledCount(config.timers),
     gpio |-> Len(config.gpio)]

(***************************************************************************)
(* SchemaBasedMCUValidator                                                 *)
(*   A run of a checker other than the pin checker is [result, raised].    *)
(***************************************************************************)
\* str(v) of a voltage held in millivolts, for voltages that are a whole
\* number of tenths of a volt
FmtVolt(mv) == <<ToString(mv \div 1000), ".", ToString((mv % 1000) \div 100)>>

AddErrorIf(cond, r, message, location, category, suggestion) ==
    IF cond THEN add_error(r, message, location, category, suggestion) ELSE r

McuNoSchema_errs(config) ==
    [result |-> add_error(NewResult, NoSchemaText(config.board.mcu),
                    <<"board.mcu">>, "schema_missing",
                    <<"Add appropriate schema file for this MCU">>),
     raised |-> <<>>]

\* the `if not mcu_specs` branch: one warning, then return
McuNoSchema(config) ==
    [result |-> add_warning(NewResult, NoSchemaText(config.board.mcu),
                    <<"board.mcu">>, "schema_missing",
                    <<"Add appropriate schema file for this MCU">>),
     raised |-> <<>>]

ClockExceeds_at_limit(clock, max_clock) == clock >= max_clock

\* `config.board.clock_frequency > max_clock`
ClockExceeds(clock, max_clock) == clock > max_clock

VoltageOutside_exclusive(voltage, min_voltage, max_voltage) ==
    ~(min_voltage < voltage /\ voltage < max_voltage)

\* `not (min_voltage <= config.board.voltage <= max_voltage)`
VoltageOutside(voltage, min_voltage, max_voltage) ==
    ~(min_voltage <= voltage /\ voltage <= max_voltage)

McuInfo_only_if_clean(r, mcu_specs) ==
    IF has_errors(r) THEN r
    ELSE add_info(r, <<"Detected MCU package: ">> \o mcu_specs.package_type
                        \o <<" (", ToString(mcu_specs.pin_count), " pins)">>,
                  <<>>, "mcu_detection", <<>>)

\* the closing add_info naming package type and pin count
McuInfo(r, mcu_specs) ==
    add_info(r, <<"Detected MCU package: ">> \o mcu_specs.package_type
                    \o <<" (", ToString(mcu_specs.pin_count), " pins)">>,
             <<>>, "mcu_detection", <<>>)

\* SchemaBasedMCUValidator.validate
McuValidate(cache, config) ==
    LET mcu_specs == find_mcu_specs(cache, config.board.mcu)
        clock == config.board.clock_frequency
        voltage == config.board.voltage
        counts == get_enabled_peripheral_count(config)
    IN  IF ~Found(mcu_specs)
        THEN McuNoSchema(config)
        ELSE IF ~IsNum(clock)
        THEN [result |-> NewResult, raised |-> CompareErrorText(">", clock)]
        ELSE
        LET r1 == AddErrorIf(ClockExceeds(clock.v, mcu_specs.max_clock), NewResult,
                    <<"Clock frequency ">> \o FmtComma(clock.v)
                        \o <<"Hz exceeds maximum ">> \o FmtComma(mcu_specs.max_clock)
                        \o <<"Hz">>,
                    <<"board.clock_frequency">>, "mcu_limits",
                    <<"Reduce clock frequency to max ">>
                        \o FmtComma(mcu_specs.max_clock) \o <<"Hz">>)
            r2 == AddErrorIf(VoltageOutside(voltage, mcu_specs.min_voltage,
                                            mcu_specs.max_voltage), r1,
                    <<"Voltage ">> \o FmtVolt(voltage) \o <<"V outside valid range ">>
                        \o FmtVolt(mcu_specs.min_voltage) \o <<"-">>
                        \o FmtVolt(mcu_specs.max_voltage) \o <<"V">>,
                    <<"board.voltage">>, "mcu_limits", <<>>)
            r3 == AddErrorIf(counts.uart > mcu_specs.uart_count, r2,
                    <<"Too many UART peripherals enabled: ", ToString(counts.uart),
                      " > ", ToString(mcu_specs.uart_count)>>,
                    <<"uart">>, "mcu_limits", <<>>)
            r4 == AddErrorIf(counts.i2c > mcu_specs.i2c_count, r3,
                    <<"Too many I2C peripherals enabled: ", ToString(counts.i2c),
                      " > ", ToString(mcu_specs.i2c_count)>>,
                    <<"i2c">>, "mcu_limits", <<>>)
            r5 == AddErrorIf(counts.spi > mcu_specs.spi_count, r4,
                    <<"Too many SPI peripherals enabled: ", ToString(counts.spi),
                      " > ", ToString(mcu_specs.spi_count)>>,
                    <<"spi">>, "mcu_limits", <<>>)
        IN  [result |-> McuInfo(r5, mcu_specs), raised |-> <<>>]

(***************************************************************************)
(* PeripheralValidator                                                     *)
(***************************************************************************)
HexDigits == <<"0", "1", "2", "3", "4", "5", "6", "7", "8", "9",
               "A", "B", "C", "D", "E", "F">>

RECURSIVE HexOf(_)
HexOf(n) == IF n < 16 THEN <<HexDigits[n + 1]>>
            ELSE HexOf(n \div 16) \o <<HexDigits[(n % 16) + 1]>>

\* format(n, '02X')
Hex02(n) ==
    LET body == IF n < 0 THEN <<"-">> \o HexOf(0 - n) ELSE HexOf(n) IN
    IF Len(body) < 2 THEN <<"0">> \o body ELSE body

MinI2cAddress == 8         \* 0x08
MaxI2cAddress == 119       \* 0x77

AddressOutOfRange_exclusive(address) ==
    address <= MinI2cAddress \/ address >= MaxI2cAddress

\* `device.address < 0x08 or device.address > 0x77`
AddressOutOfRange(address) == address < MinI2cAddress \/ address > MaxI2cAddress

\* the loop body of _validate_i2c_addresses for one device; st carries the
\* `addresses` set of the bus
I2cDeviceStepBody(st, i2c, device) ==
    IF st.raised # <<>> THEN st
    ELSE LET a == device.address
             dup == a \in st.addresses
         IN
         IF dup /\ ~IsNum(a)
         THEN [st EXCEPT !.raised = FormatErrorText(a)]
         ELSE
         LET r1 == AddErrorIf(dup, st.result,
                    <<"I2C address conflict on ">> \o i2c.name \o <<": 0x">>
                        \o (IF IsNum(a) THEN Hex02(a.v) ELSE <<>>)
                        \o <<" used multiple times">>,
                    <<"i2c.">> \o i2c.name, "i2c_conflict",
                    <<"Use unique I2C addresses for each device">>)
         IN  IF ~IsNum(a)
             THEN [st EXCEPT !.result = r1, !.addresses = @ \cup {a},
                             !.raised = CompareErrorText("<", a)]
             ELSE [st EXCEPT
                    !.addresses = @ \cup {a},
                    !.result = AddErrorIf(AddressOutOfRange(a.v), r1,
                        <<"Invalid I2C address on ">> \o i2c.name \o <<": 0x">>
                            \o Hex02(a.v) \o <<" (must be 0x08-0x77)">>,
                        <<"i2c.">> \o i2c.name \o <<".">> \o device.name,
                        "i2c_address", <<>>)]

I2cDeviceStep(st, i2c, device) ==
    Let1(LAMBDA s : I2cDeviceStepBody(s, i2c, device), st)

RECURSIVE I2cDevices(_, _, _)
I2cDevices(st, i2c, devices) ==
    IF devices = <<>> THEN st
    ELSE I2cDevices(I2cDeviceStep(st, i2c, Head(devices)), i2c, Tail(devices))

RECURSIVE _validate_i2c_addresses(_, _)
_validate_i2c_addresses(st, buses) ==
    IF buses = <<>> THEN st
    ELSE LET i2c == Head(buses) IN
         _validate_i2c_addresses(
            Let1(LAMBDA s :
                    IF s.raised # <<>> \/ ~i2c.enabled THEN s
                    ELSE I2cDevices([s EXCEPT !.addresses = {}], i2c, i2c.devices),
                 st),
            Tail(buses))

MaxDutyCycle == 100
MinChannel == 1
MaxChannel == 4
MaxTimerValue == 65536

DutyInvalid_exclusive(duty_cycle) ==
    ~IsNum(duty_cycle) \/ ~(0 <= duty_cycle.v /\ duty_cycle.v < MaxDutyCycle)

\* `timer.duty_cycle is None or not (0 <= timer.duty_cycle <= 100)`, for a
\* duty cycle that is an int or None
DutyInvalid(duty_cycle) ==
    ~IsNum(duty_cycle) \/ ~(0 <= duty_cycle.v /\ duty_cycle.v <= MaxDutyCycle)

\* the loop body of _validate_timer_configs; duty_cycle and channel are an
\* int or None, prescaler and period are ints
TimerStep(r, timer) ==
    IF ~timer.enabled THEN r
    ELSE
    LET loc == <<"timers.">> \o timer.name
        pwm == timer.mode = "pwm"
        r1 == AddErrorIf(pwm /\ DutyInvalid(timer.duty_cycle), r,
                <<"Timer ">> \o timer.name
                    \o <<": PWM mode requires duty_cycle between 0-100">>,
                loc, "timer_config", <<>>)
        r2 == AddErrorIf(pwm /\ Falsy(timer.output_pin), r1,
                <<"Timer ">> \o timer.name \o <<": PWM mode requires output_pin">>,
                loc, "timer_config", <<>>)
        r3 == AddErrorIf(pwm /\ (~IsNum(timer.channel)
                                 \/ ~(MinChannel <= timer.channel.v
                                      /\ timer.channel.v <= MaxChannel)), r2,
                <<"Timer ">> \o timer.name \o <<": Invalid PWM channel (must be 1-4)">>,
                loc, "timer_config", <<>>)
        r4 == AddErrorIf(timer.prescaler <= 0 \/ timer.prescaler > MaxTimerValue, r3,
                <<"Timer ">> \o timer.name \o <<": Invalid prescaler value ",
                  ToString(timer.prescaler), " (1-65536)">>,
                loc, "timer_config", <<>>)
    IN  AddErrorIf(timer.period <= 0 \/ timer.period > MaxTimerValue, r4,
                <<"Timer ">> \o timer.name \o <<": Invalid period value ",
                  ToString(timer.period), " (1-65536)">>,
                loc, "timer_config", <<>>)

RECURSIVE _validate_timer_configs(_, _)
_validate_timer_configs(r, timers) ==
    IF timers = <<>> THEN r
    ELSE _validate_timer_configs(TimerStep(r, Head(timers)), Tail(timers))

SpiStep_cs_required(r, spi) ==
    IF ~spi.enabled THEN r
    ELSE
    LET loc == <<"spi.">> \o spi.name
        r1 == AddErrorIf(Falsy(spi.sck_pin), r,
                <<"SPI ">> \o spi.name \o <<": SCK pin is required">>,
                loc, "spi_config", <<>>)
        r2 == AddErrorIf(Falsy(spi.mosi_pin), r1,
                <<"SPI ">> \o spi.name \o <<": MOSI pin is required">>,
                loc, "spi_config", <<>>)
    IN  AddErrorIf(spi.cs_pins = <<>>, r2,
                <<"SPI ">> \o spi.name \o <<": No CS pins configured">>,
                loc, "spi_config", <<"Add CS pins for device selection">>)

\* the loop body of _validate_spi_configs
SpiStep(r, spi) ==
    IF ~spi.enabled THEN r
    ELSE
    LET loc == <<"spi.">> \o spi.name
        r1 == AddErrorIf(Falsy(spi.sck_pin), r,
                <<"SPI ">> \o spi.name \o <<": SCK pin is required">>,
                loc, "spi_config", <<>>)
        r2 == AddErrorIf(Falsy(spi.mosi_pin), r1,
                <<"SPI ">> \o spi.name \o <<": MOSI pin is required">>,
                loc, "spi_config", <<>>)
    IN  IF spi.cs_pins = <<>>
        THEN add_warning(r2, <<"SPI ">> \o spi.name \o <<": No CS pins configured">>,
                         loc, "spi_config", <<"Add CS pins for device selection">>)
        ELSE r2

RECURSIVE _validate_spi_configs(_, _)
_validate_spi_configs(r, spis) ==
    IF spis = <<>> THEN r
    ELSE _validate_spi_configs(SpiStep(r, Head(spis)), Tail(spis))

UartStep(r, uart) ==
    IF uart.enabled /\ Falsy(uart.tx_pin) /\ Falsy(uart.rx_pin)
    THEN add_warning(r, <<"UART ">> \o uart.name \o <<": No TX or RX pins configured">>,
                     <<"uart.">> \o uart.name, "uart_config",
                     <<"Configure at least TX or RX pin">>)
    ELSE r

RECURSIVE _validate_uart_configs(_, _)
_validate_uart_configs(r, uarts) ==
    IF uarts = <<>> THEN r
    ELSE _validate_uart_configs(UartStep(r, Head(uarts)), Tail(uarts))

\* PeripheralValidator.validate
PeripheralValidate(config) ==
    Let1(LAMBDA s1 :
            IF s1.raised # <<>> THEN [result |-> s1.result, raised |-> s1.raised]
            ELSE [result |-> _validate_uart_configs(
                                _validate_spi_configs(
                                    _validate_timer_configs(s1.result, config.timers),
                                    config.spi),
                                config.uart),
                  raised |-> <<>>],
         _validate_i2c_addresses(
            [result |-> NewResult, raised |-> <<>>, addresses |-> {}], config.i2c))

(***************************************************************************)
(* SchemaValidator                                                         *)
(*   What jsonschema and the schema files answer is given by `env`:        *)
(*     env.mcu_schema    : "pass" | "violation" | "unreadable"             *)
(*     env.device_schema : "missing" | "pass" | "violation" | "unreadable" *)
(*   for the MCU document and for the documents under peripherals/.        *)
(***************************************************************************)
\* _validate_mcu_schema
_validate_mcu_schema(cache, env, mcu_type) ==
    LET mcu_specs == find_mcu_specs(cache, mcu_type) IN
    IF ~Found(mcu_specs)
    THEN add_info(NewResult, NoSchemaText(mcu_type), <<>>, "schema_availability", <<>>)
    ELSE CASE env.mcu_schema = "pass" ->
                add_info(NewResult,
                    <<"MCU schema validation passed for ">> \o mcu_specs.schema_file,
                    <<>>, "schema_validation", <<>>)
           [] env.mcu_schema = "violation" ->
                add_error(NewResult,
                    <<"MCU schema validation at '", "<path>", "': ", "<message>">>,
                    <<"<path>">>, "schema_validation", <<>>)
           [] OTHER ->
                add_warning(NewResult,
                    <<"Schema loading error for ">> \o mcu_specs.schema_file
                        \o <<": ", "<exception>">>,
                    <<>>, "schema_error", <<>>)

\* _validate_device_schema
_validate_device_schema(env, device_type) ==
    CASE env.device_schema = "missing" ->
            add_info(NewResult, <<"No schema found for device type: ">> \o device_type,
                     <<>>, "schema_availability", <<>>)
      [] env.device_schema = "pass" ->
            add_info(NewResult,
                     <<"Device schema validation passed for ">> \o device_type,
                     <<>>, "schema_validation", <<>>)
      [] env.device_schema = "violation" ->
            add_error(NewResult,
                      <<"Device schema validation (">> \o device_type
                        \o <<"): ", "<message>">>,
                      <<>>, "schema_validation", <<>>)
      [] OTHER ->
            add_warning(NewResult,
                        <<"Schema loading error for ">> \o device_type
                            \o <<": ", "<exception>">>,
                        <<>>, "schema_error", <<>>)

asdict_shares(config) == [shared |-> TRUE, value |-> config]

\* dataclasses.asdict(config): the configuration as nested dicts and lists,
\* a deep copy that shares no object with the configuration
asdict(config) == [shared |-> FALSE, value |-> config]

\* device['type'] = device.pop('device_type')
RenameDevice(device) ==
    [name |-> device.name, address |-> device.address, type |-> device.device_type]

\* the loop that renames device_type to type on every device of every bus
RenameDeviceTypes(config_dict) ==
    [config_dict EXCEPT !.i2c =
        [b \in 1..Len(config_dict.i2c) |->
            [config_dict.i2c[b] EXCEPT !.devices =
                [d \in 1..Len(config_dict.i2c[b].devices) |->
                    RenameDevice(config_dict.i2c[b].devices[d])]]]]

\* the devices of the enabled buses, in order
EnabledDevices(config) ==
    Flatten([i \in 1..Len(config.i2c) |->
                IF config.i2c[i].enabled THEN config.i2c[i].devices ELSE <<>>])

\* the loop of _validate_peripheral_schemas; .lower() of a device type that
\* is not a str raises AttributeError
RECURSIVE _validate_peripheral_schemas(_, _, _)
_validate_peripheral_schemas(st, env, devices) ==
    IF devices = <<>> THEN st
    ELSE LET t == Head(devices).type IN
         _validate_peripheral_schemas(
            Let1(LAMBDA s :
                    IF s.raised # <<>> THEN s
                    ELSE IF ~IsStr(t) THEN [s EXCEPT !.raised =
                            <<"'", TypeName(t), "' object has no attribute 'lower'">>]
                    ELSE IF Lower(t) = <<>> THEN s
                    ELSE [s EXCEPT !.result =
                            merge(@, _validate_device_schema(env, Lower(t)))],
                 st),
            env, Tail(devices))

\* SchemaValidator.validate: its result, the exception it raised, and the
\* configuration object as the call leaves it (the renaming is done on the
\* dict asdict made, which is the configuration itself only if they share)
SchemaValidate(cache, env, config) ==
    LET copy == asdict(config)
        config_dict == RenameDeviceTypes(copy.value)
        after == IF copy.shared THEN config_dict ELSE config
        result == merge(NewResult, _validate_mcu_schema(cache, env, config.board.mcu))
    IN  Let1(LAMBDA p :
                IF p.raised # <<>>
                THEN [result |-> result, raised |-> p.raised, config |-> after]
                ELSE [result |-> merge(result, p.result), raised |-> <<>>,
                      config |-> after],
             _validate_peripheral_schemas([result |-> NewResult, raised |-> <<>>],
                                          env, EnabledDevices(config_dict)))

(***************************************************************************)
(* ConfigValidator                                                         *)
(***************************************************************************)
ValidatorNames ==
    << <<"Schema-Based Pin Validation">>, <<"Schema-Based MCU Validation">>,
       <<"Peripheral Validation">>, <<"JSON Schema Validation">> >>

ValidatorErrorText(k, exc) ==
    <<"Validation error in ">> \o ValidatorNames[k] \o <<": ">> \o exc

Absorb_keeps_partial(final, k, out) ==
    IF out.raised # <<>>
    THEN add_error(merge(final, out.result), ValidatorErrorText(k, out.raised),
                   <<>>, "validator_error", <<>>)
    ELSE merge(final, out.result)

\* the body of the orchestrator's loop for checker k, whose run was `out`:
\* merge its result, or report the exception it raised
Absorb(final, k, out) ==
    IF out.raised # <<>>
    THEN add_error(final, ValidatorErrorText(k, out.raised),
                   <<>>, "validator_error", <<>>)
    ELSE merge(final, out.result)

RunCheckers_swapped(cache, det, config, env) ==
    << Let1(LAMBDA pin : [result |-> pin.result, raised |-> pin.raised],
            PinValidate(cache, det, config)),
       PeripheralValidate(config),
       McuValidate(cache, config),
       SchemaValidate(cache, env, config) >>

\* the runs of the four validators, in the order of the `validators` list
RunCheckers(cache, det, config, env) ==
    << Let1(LAMBDA pin : [result |-> pin.result, raised |-> pin.raised],
            PinValidate(cache, det, config)),
       McuValidate(cache, config),
       PeripheralValidate(config),
       SchemaValidate(cache, env, config) >>

\* ConfigValidator.validate: the final result, the detector and the
\* registrations the pin checker left, and each checker's run
ConfigValidate(cache, det, config, env) ==
    Let1(LAMBDA pin :
        Let1(LAMBDA outs :
            [final_result |->
                Absorb(Absorb(Absorb(Absorb(NewResult, 1, outs[1]), 2, outs[2]),
                              3, outs[3]), 4, outs[4]),
             det |-> pin.det, calls |-> pin.calls, outs |-> outs,
             config |-> outs[4].config],
            RunCheckers(cache, det, config, env)),
        PinValidate(cache, det, config))

(***************************************************************************)
(* The configurations explored                                             *)
(***************************************************************************)
PB0 == <<"P", "B", "0">>
PB1 == <<"P", "B", "1">>

Gpio(pin) == [pin |-> pin, direction |-> <<"output">>]

Uart(enabled, tx_pin, rx_pin) ==
    [name |-> <<"uart1">>, enabled |-> enabled, tx_pin |-> tx_pin, rx_pin |-> rx_pin]

Device(name, address, device_type) ==
    [name |-> name, address |-> address, device_type |-> device_type]

I2c(enabled, devices) ==
    [name |-> <<"i2c1">>, enabled |-> enabled, scl_pin |-> PB0, sda_pin |-> PB1,
     devices |-> devices]

Spi(enabled, sck_pin, mosi_pin, cs_pins) ==
    [name |-> <<"spi1">>, enabled |-> enabled, sck_pin |-> sck_pin,
     miso_pin |-> <<>>, mosi_pin |-> mosi_pin, cs_pins |-> cs_pins]

Timer(enabled, mode, duty_cycle, output_pin) ==
    [name |-> <<"tim1">>, enabled |-> enabled, mode |-> mode, prescaler |-> 1,
     period |-> 1000, channel |-> Num(1), duty_cycle |-> duty_cycle,
     output_pin |-> output_pin]

Board(mcu, clock_frequency) ==
    [mcu |-> mcu, clock_frequency |-> clock_frequency, voltage |-> 3300]

EmptyConfig ==
    [board |-> Board(<<>>, Num(0)), gpio |-> <<>>, uart |-> <<>>, i2c |-> <<>>,
     spi |-> <<>>, timers |-> <<>>]

GpioSeqs == UNION { [1..n -> {Gpio(PA0), Gpio(PZ0), Gpio(IntVal)}] : n \in 0..MaxGpio }

UartOpts ==
    { <<>>, <<Uart(TRUE, PA0, PA1)>>, <<Uart(TRUE, PA1, <<>>)>>,
      <<Uart(TRUE, <<>>, <<>>)>>, <<Uart(FALSE, PA0, PA0)>> }

I2cOpts ==
    { <<>>,
      <<I2c(TRUE, <<Device(<<"d1">>, Num(72), <<"bme280">>)>>)>>,
      <<I2c(TRUE, <<Device(<<"d1">>, Num(72), <<"bme280">>),
                    Device(<<"d2">>, Num(72), <<>>)>>)>>,
      <<I2c(TRUE, <<Device(<<"d1">>, Num(7), <<"bme280">>),
                    Device(<<"d2">>, StrNum, <<"bme280">>)>>)>>,
      <<I2c(TRUE, <<Device(<<"d1">>, Num(7), <<"bme280">>),
                    Device(<<"d2">>, Num(72), NoneVal)>>)>> }

SpiOpts == { <<>>, <<Spi(TRUE, PA0, PZ0, <<>>)>> }

TimerOpts == { <<>>, <<Timer(TRUE, "pwm", Num(101), PA0)>> }

Boards ==
    { Board(m, c) : m \in {KnownMcu, UnknownMcu},
                    c \in {Num(DocValues.MaxClock), Num(DocValues.MaxClock + 1), StrNum} }

Configs ==
    { [board |-> b, gpio |-> g, uart |-> u, i2c |-> i, spi |-> s, timers |-> t] :
        b \in Boards, g \in GpioSeqs, u \in UartOpts, i \in I2cOpts,
        s \in SpiOpts, t \in TimerOpts }

Envs ==
    { [mcu_schema |-> "pass", device_schema |-> "pass"],
      [mcu_schema |-> "violation", device_schema |-> "missing"],
      [mcu_schema |-> "unreadable", device_schema |-> "violation"] }

\* the smaller family validated repeatedly on one ConfigValidator
SeqConfigs ==
    { [board |-> b, gpio |-> g, uart |-> u, i2c |-> <<>>, spi |-> <<>>, timers |-> t] :
        b \in {Board(KnownMcu, Num(DocValues.MaxClock)), Board(UnknownMcu, Num(DocValues.MaxClock))},
        g \in {<<>>, <<Gpio(PA0)>>, <<Gpio(PA1), Gpio(PA1)>>, <<Gpio(PZ0)>>},
        u \in {<<>>, <<Uart(TRUE, PA0, PA1)>>, <<Uart(TRUE, PA0, IntVal)>>},
        t \in TimerOpts }

SeqEnvs == { [mcu_schema |-> "pass", device_schema |-> "pass"] }

(***************************************************************************)
(* Specifications Spec and SpecSeq: ConfigValidator.validate called on a   *)
(* ConfigValidator built over the schema directory (Spec: once, on any     *)
(* explored configuration; SpecSeq: repeatedly on the same validator).     *)
(***************************************************************************)
\* ConfigValidator.__init__: the database is loaded, the pin validator gets
\* its detector
Threads == {1, 2}

\* a thread that has not called validate
IdleThread ==
    [pc |-> "idle", config |-> EmptyConfig, todo |-> <<>>, cur |-> <<>>,
     result |-> NewResult, raised |-> <<>>, next_conflict |-> 1,
     final |-> NewResult]

InitRunVars ==
    /\ threads = [t \in Threads |-> IdleThread]
    /\ mcu_specs_cache = _load_all_schemas(<<>>, SchemaDocs)
    /\ run_config = EmptyConfig
    /\ run_env = [mcu_schema |-> "pass", device_schema |-> "pass"]
    /\ final_result = NewResult
    /\ checker_out = <<>>
    /\ runs = 0

Init ==
    /\ results = [i \in {1, 2} |-> NewResult]
    /\ pin_mappings = NewDetector.pin_mappings
    /\ conflicts = NewDetector.conflicts
    /\ history = <<>>
    /\ last_call = [op |-> "none"]
    /\ InitRunVars

Validate(cfg, e) ==
    /\ \E r \in {ConfigValidate(mcu_specs_cache, Detector, cfg, e)} :
        /\ final_result' = r.final_result
        /\ pin_mappings' = r.det.pin_mappings
        /\ conflicts' = r.det.conflicts
        /\ history' = r.calls
        /\ checker_out' = r.outs
        /\ run_config' = r.config
    /\ last_call' = [op |-> "validate", pre |-> Detector, config |-> cfg,
                     pre_raised |-> (runs > 0 /\ checker_out[1].raised # <<>>)]
    /\ run_env' = e
    /\ runs' = runs + 1
    /\ UNCHANGED <<results, mcu_specs_cache, threads>>

Next == runs = 0 /\ \E cfg \in Configs, e \in Envs : Validate(cfg, e)

Spec == Init /\ [][Next]_vars

NextSeq == runs < MaxRuns /\ \E cfg \in SeqConfigs, e \in SeqEnvs : Validate(cfg, e)

SpecSeq == Init /\ [][NextSeq]_vars

(***************************************************************************)
(* Specification SpecResult: ValidationResult objects driven by their      *)
(* public operations.                                                      *)
(***************************************************************************)
ObjIds == {1, 2}

TestTexts == {<<"m">>}

InitResult ==
    /\ results = [i \in ObjIds |-> NewResult]
    /\ pin_mappings = <<>>
    /\ conflicts = <<>>
    /\ history = <<>>
    /\ last_call = [op |-> "none"]
    /\ InitRunVars

ResAddError(i, t) ==
    /\ Len(results[i].messages) < MaxMsgs
    /\ results' = [results EXCEPT ![i] = add_error(@, t, <<>>, "", <<>>)]
    /\ last_call' = [op |-> "add_error", self |-> i, pre |-> results]
    /\ UNCHANGED <<pin_mappings, conflicts, history>>
    /\ UNCHANGED <<runVars, threads>>

ResAddWarning(i, t) ==
    /\ Len(results[i].messages) < MaxMsgs
    /\ results' = [results EXCEPT ![i] = add_warning(@, t, <<>>, "", <<>>)]
    /\ last_call' = [op |-> "add_warning", self |-> i, pre |-> results]
    /\ UNCHANGED <<pin_mappings, conflicts, history>>
    /\ UNCHANGED <<runVars, threads>>

ResAddInfo(i, t) ==
    /\ Len(results[i].messages) < MaxMsgs
    /\ results' = [results EXCEPT ![i] = add_info(@, t, <<>>, "", <<>>)]
    /\ last_call' = [op |-> "add_info", self |-> i, pre |-> results]
    /\ UNCHANGED <<pin_mappings, conflicts, history>>
    /\ UNCHANGED <<runVars, threads>>

\* results[i].merge(results[j]); i = j is a result merged into itself
ResMerge(i, j) ==
    /\ Len(results[i].messages) + Len(results[j].messages) <= MaxMsgs
    /\ results' = [results EXCEPT ![i] = merge(results[i], results[j])]
    /\ last_call' = [op |-> "merge", self |-> i, other |-> j, pre |-> results]
    /\ UNCHANGED <<pin_mappings, conflicts, history>>
    /\ UNCHANGED <<runVars, threads>>

NextResult ==
    \E i \in ObjIds :
        \/ \E t \in TestTexts : ResAddError(i, t)
        \/ \E t \in TestTexts : ResAddWarning(i, t)
        \/ \E t \in TestTexts : ResAddInfo(i, t)
        \/ \E j \in ObjIds : ResMerge(i, j)

SpecResult == InitResult /\ [][NextResult]_vars

(***************************************************************************)
(* Specification SpecDetector: one PinConflictDetector driven by           *)
(* add_pin_usage and clear.                                                *)
(***************************************************************************)
TestMappings ==
    { PinMapping(p, "GPIO", <<"GPIO (", "output", ")">>, <<"gpio[", "0", "]">>) :
        p \in {PA0, PA1} }
    \cup
    { PinMapping(p, "UART", <<"UART ", "uart1", " ", "TX">>, <<"uart.", "uart1">>) :
        p \in {PA0, PA1} }
    \cup
    { PinMapping(p, "SPI", <<"SPI ", "spi1", " ", "SCK">>, <<"spi.", "spi1">>) :
        p \in {PA0, PA1} }

InitDetector ==
    /\ results = [i \in ObjIds |-> NewResult]
    /\ pin_mappings = NewDetector.pin_mappings
    /\ conflicts = NewDetector.conflicts
    /\ history = <<>>
    /\ last_call = [op |-> "none"]
    /\ InitRunVars

DetAddPinUsage(m) ==
    /\ Len(history) < MaxCalls
    /\ LET r == add_pin_usage(Detector, m) IN
        /\ pin_mappings' = r.det.pin_mappings
        /\ conflicts' = r.det.conflicts
        /\ last_call' = [op |-> "add_pin_usage", mapping |-> m,
                         pre |-> Detector, ret |-> r.ret]
    /\ history' = Append(history, m)
    /\ UNCHANGED results
    /\ UNCHANGED <<runVars, threads>>

DetClear ==
    /\ history # <<>>
    /\ LET d == clear(Detector) IN
        /\ pin_mappings' = d.pin_mappings
        /\ conflicts' = d.conflicts
    /\ history' = <<>>
    /\ last_call' = [op |-> "clear", pre |-> Detector]
    /\ UNCHANGED results
    /\ UNCHANGED <<runVars, threads>>

NextDetector ==
    \/ \E m \in TestMappings : DetAddPinUsage(m)
    \/ DetClear

SpecDetector == InitDetector /\ [][NextDetector]_vars

(***************************************************************************)
(* Claims                                                                  *)
(***************************************************************************)

\* the first mapping of `log` that names pin p (p occurs in log)
FirstFor(log, p) ==
    log[CHOOSE i \in 1..Len(log) :
            /\ log[i].pin = p
            /\ \A k \in 1..(i - 1) : log[k].pin # p]

\* C1: add_pin_usage(m) on a detector where m.pin has no owner stores m as
\* the owner of m.pin, leaves the conflict list unchanged and returns False;
\* where m.pin has an owner it appends exactly the pair (existing owner, m)
\* at the end of the conflict list, leaves pin_mappings unchanged and
\* returns True.
C1_AddPinUsageContract ==
    last_call.op = "add_pin_usage" =>
        LET pre == last_call.pre
            m == last_call.mapping
        IN  IF m.pin \notin DOMAIN pre.pin_mappings
            THEN /\ DOMAIN pin_mappings = DOMAIN pre.pin_mappings \cup {m.pin}
                 /\ pin_mappings[m.pin] = m
                 /\ \A p \in DOMAIN pre.pin_mappings :
                        pin_mappings[p] = pre.pin_mappings[p]
                 /\ conflicts = pre.conflicts
                 /\ last_call.ret = FALSE
            ELSE /\ Len(conflicts) = Len(pre.conflicts) + 1
                 /\ SubSeq(conflicts, 1, Len(pre.conflicts)) = pre.conflicts
                 /\ conflicts[Len(conflicts)] = <<pre.pin_mappings[m.pin], m>>
                 /\ pin_mappings = pre.pin_mappings
                 /\ last_call.ret = TRUE

\* C1 witness: a call on an owned pin, with a different mapping than the
\* owner, after an earlier conflict was already recorded
C1_Witness ==
    /\ last_call.op = "add_pin_usage"
    /\ last_call.ret = TRUE
    /\ Len(conflicts) >= 2
    /\ pin_mappings[last_call.mapping.pin] # last_call.mapping

\* C2: after any sequence of add_pin_usage calls since construction or the
\* last clear(), every pin has at most one owner, the owner is the mapping
\* of the pin's first registration, and the `existing` element of every
\* conflict pair recorded for a pin is that first registration.
C2_FirstOwnerKept ==
    LET registered == { history[i].pin : i \in 1..Len(history) } IN
    /\ DOMAIN pin_mappings = registered
    /\ \A p \in registered : pin_mappings[p] = FirstFor(history, p)
    /\ \A k \in 1..Len(conflicts) :
        /\ conflicts[k][2].pin \in registered
        /\ conflicts[k][1] = FirstFor(history, conflicts[k][2].pin)

\* C2 witness: a pin registered three times, by three different mappings in
\* the log, with two conflict pairs recorded against its owner
C2_Witness ==
    /\ Len(history) >= 3
    /\ \E p \in DOMAIN pin_mappings :
        /\ Cardinality({ i \in 1..Len(history) : history[i].pin = p }) >= 3
        /\ Cardinality({ history[i] : i \in 1..Len(history) }) >= 3
        /\ Len(SelectSeq(conflicts, LAMBDA c : c[1] = pin_mappings[p])) >= 2

\* C7: after A.merge(B), for two different result objects A and B, A's
\* messages are A's previous messages followed by B's messages in B's order,
\* A.is_valid is the AND of A's previous validity and B's validity, and B is
\* unchanged.
C7_MergeContract ==
    (last_call.op = "merge" /\ last_call.self # last_call.other) =>
        LET A0 == last_call.pre[last_call.self]
            B0 == last_call.pre[last_call.other]
            A == results[last_call.self]
            B == results[last_call.other]
        IN  /\ Len(A.messages) = Len(A0.messages) + Len(B0.messages)
            /\ \A k \in 1..Len(A0.messages) : A.messages[k] = A0.messages[k]
            /\ \A k \in 1..Len(B0.messages) :
                    A.messages[Len(A0.messages) + k] = B0.messages[k]
            /\ A.is_valid = (A0.is_valid /\ B0.is_valid)
            /\ B = B0

\* C7 witness: a valid A holding a warning merged with an invalid B holding
\* an error then an info
C7_Witness ==
    /\ last_call.op = "merge"
    /\ last_call.self # last_call.other
    /\ LET A0 == last_call.pre[last_call.self]
           B0 == last_call.pre[last_call.other]
       IN  /\ A0.is_valid /\ ~B0.is_valid
           /\ Len(A0.messages) = 1 /\ A0.messages[1].level = WARNING
           /\ Len(B0.messages) = 2
           /\ B0.messages[1].level = ERROR /\ B0.messages[2].level = INFO

\* C8: for every result built from empty results by add_error, add_warning,
\* add_info and merge, is_valid is False exactly when the message sequence
\* holds a message of severity error (is_valid = not has_errors()).
C8_ValidIffNoError ==
    \A i \in ObjIds :
        /\ results[i].is_valid = ~has_errors(results[i])
        /\ results[i].is_valid =
            (\A k \in 1..Len(results[i].messages) :
                results[i].messages[k].level # ERROR)

\* C8 witness: a result that held no error of its own became invalid by
\* merging an invalid result
C8_Witness ==
    /\ last_call.op = "merge"
    /\ last_call.pre[last_call.self].is_valid
    /\ ~results[last_call.self].is_valid
    /\ results[last_call.self].messages[1].level = INFO

(***************************************************************************)
(* SpecMcu: SchemaBasedMCUValidator.validate called on configurations that *)
(* vary the board's clock and voltage around the record's limits and the   *)
(* numbers of enabled and disabled peripherals around its instance limits. *)
(***************************************************************************)
BoardV(mcu, clock_frequency, voltage) ==
    [mcu |-> mcu, clock_frequency |-> clock_frequency, voltage |-> voltage]

\* the enabled flags of the instances of one peripheral kind
EnabledFlags == { <<>>, <<TRUE>>, <<TRUE, FALSE>>, <<TRUE, TRUE>> }

\* instances of one kind named <prefix>1, <prefix>2, ... with these flags
Named(instance, prefix, flags) ==
    [i \in 1..Len(flags) |->
        [instance EXCEPT !.name = <<prefix, ToString(i)>>, !.enabled = flags[i]]]

McuConfigs ==
    { [board |-> BoardV(m, c, v), gpio |-> <<>>,
       uart |-> Named(Uart(TRUE, <<>>, <<>>), "uart", fu),
       i2c |-> Named(I2c(TRUE, <<>>), "i2c", fi),
       spi |-> Named(Spi(TRUE, PA0, PA1, <<>>), "spi", fs),
       timers |-> Named(Timer(TRUE, "basic", Num(50), <<>>), "tim", ft)] :
        m \in {KnownMcu, UnknownMcu},
        c \in {Num(DocValues.MaxClock - 1), Num(DocValues.MaxClock),
               Num(DocValues.MaxClock + 1), StrNum},
        v \in {DocValues.MinVoltage - 100, DocValues.MinVoltage, 3300,
               DocValues.MaxVoltage, DocValues.MaxVoltage + 100},
        fu \in EnabledFlags, fi \in EnabledFlags, fs \in EnabledFlags,
        ft \in EnabledFlags }

\* mcu_validator.validate(cfg)
McuCall(cfg) ==
    /\ last_call' = [op |-> "mcu_validate", config |-> cfg,
                     out |-> McuValidate(mcu_specs_cache, cfg)]
    /\ UNCHANGED <<results, pin_mappings, conflicts, history, runVars, threads>>

\* the checker keeps no state between calls: one call per behaviour
NextMcu == last_call.op = "none" /\ \E cfg \in McuConfigs : McuCall(cfg)

SpecMcu == Init /\ [][NextMcu]_vars

(***************************************************************************)
(* SpecPeriph: PeripheralValidator.validate called on configurations that  *)
(* vary the devices of the I2C buses, the fields of the timers, or the     *)
(* pins of the SPI instances.                                              *)
(***************************************************************************)
NoPeripherals ==
    [board |-> Board(KnownMcu, Num(DocValues.MaxClock)), gpio |-> <<>>,
     uart |-> <<>>, i2c |-> <<>>, spi |-> <<>>, timers |-> <<>>]

\* addresses below, at and above the two ends of the valid range
TestAddresses == {7, 8, 72, 119, 120}

\* the devices d1, d2, ... of a bus with these addresses
DevicesAt(addresses) ==
    [i \in 1..Len(addresses) |->
        Device(<<"d", ToString(i)>>, Num(addresses[i]), <<>>)]

Bus(name, enabled, addresses) ==
    [I2c(enabled, DevicesAt(addresses)) EXCEPT !.name = <<name>>]

\* one enabled bus of up to three devices, alone or beside a second bus
\* that is enabled or disabled and repeats addresses of its own
I2cFamily ==
    { [NoPeripherals EXCEPT !.i2c = <<Bus("i2c1", TRUE, a)>> \o other] :
        a \in UNION { [1..n -> TestAddresses] : n \in 0..3 },
        other \in { <<>>, <<Bus("i2c2", TRUE, <<72, 8>>)>>,
                    <<Bus("i2c2", FALSE, <<72, 72, 7>>)>> } }

TestTimer(enabled, mode, duty_cycle, output_pin, channel, prescaler, period) ==
    [name |-> <<"tim1">>, enabled |-> enabled, mode |-> mode,
     prescaler |-> prescaler, period |-> period, channel |-> channel,
     duty_cycle |-> duty_cycle, output_pin |-> output_pin]

\* one timer with every field around its limits, alone or before a second
\* enabled timer that violates two conditions
TimerFamily ==
    { [NoPeripherals EXCEPT
        !.timers = <<TestTimer(en, mode, duty, pin, ch, pre, per)>> \o other] :
        en \in BOOLEAN, mode \in {"pwm", "basic"},
        duty \in {NoneNum, Num(0 - 1), Num(0), Num(100), Num(101)},
        pin \in {<<>>, NoneVal, PA0},
        ch \in {NoneNum, Num(0), Num(1), Num(4), Num(5)},
        pre \in {0, 1, 65536, 65537}, per \in {0, 1, 65536, 65537},
        other \in { <<>>,
                    <<[TestTimer(TRUE, "pwm", Num(50), <<>>, Num(1), 1, 0)
                        EXCEPT !.name = <<"tim2">>]>> } }

TestSpi(name, enabled, sck_pin, miso_pin, mosi_pin, cs_pins) ==
    [name |-> <<name>>, enabled |-> enabled, sck_pin |-> sck_pin,
     miso_pin |-> miso_pin, mosi_pin |-> mosi_pin, cs_pins |-> cs_pins]

SpiFamily ==
    { [NoPeripherals EXCEPT
        !.spi = <<TestSpi("spi1", en, sck, miso, mosi, cs)>> \o other] :
        en \in BOOLEAN, sck \in {<<>>, NoneVal, PA0}, miso \in {<<>>, PA1},
        mosi \in {<<>>, NoneVal, PB0}, cs \in {<<>>, <<PB1>>},
        other \in { <<>>, <<TestSpi("spi2", TRUE, <<>>, <<>>, PB0, <<>>)>> } }

PeriphConfigs == I2cFamily \cup TimerFamily \cup SpiFamily

\* peripheral_validator.validate(cfg)
PeriphCall(cfg) ==
    /\ last_call' = [op |-> "peripheral_validate", config |-> cfg,
                     out |-> PeripheralValidate(cfg)]
    /\ UNCHANGED <<results, pin_mappings, conflicts, history, runVars, threads>>

\* the checker keeps no state between calls: one call per behaviour
NextPeriph == last_call.op = "none" /\ \E cfg \in PeriphConfigs : PeriphCall(cfg)

SpecPeriph == Init /\ [][NextPeriph]_vars

(***************************************************************************)
(* SpecConc: two threads call validate on one ConfigValidator.  The        *)
(* validator's pin checker and its detector are attributes of the          *)
(* validator, so both calls work on the same pin_mappings and conflicts;   *)
(* result, mcu_specs and the loop positions are locals of each call.  A    *)
(* step is a piece of the call between two accesses to the detector.       *)
(***************************************************************************)
ConcEnv == [mcu_schema |-> "pass", device_schema |-> "pass"]

ConcConfigs ==
    { [board |-> Board(m, Num(DocValues.MaxClock)), gpio |-> g, uart |-> u,
       i2c |-> <<>>, spi |-> <<>>, timers |-> <<>>] :
        m \in {KnownMcu, UnknownMcu},
        g \in {<<>>, <<Gpio(PA0)>>, <<Gpio(PZ0), Gpio(PA1)>>},
        u \in {<<>>, <<Uart(TRUE, PA0, PA1)>>, <<Uart(TRUE, PA0, IntVal)>>} }

\* the pins the five collectors visit, in the order validate calls them
AllClaims(config) ==
    GpioClaims(config) \o UartClaims(config) \o I2cClaims(config)
        \o SpiClaims(config) \o TimerClaims(config)

\* the value ConfigValidator.validate returns once its pin checker ended
\* with `pin` and the three other checkers, which keep no state, have run
ConcFinal(config, pin) ==
    Let1(LAMBDA outs :
            Absorb(Absorb(Absorb(Absorb(NewResult, 1, pin), 2, outs[2]),
                          3, outs[3]), 4, outs[4]),
         RunCheckers(mcu_specs_cache, NewDetector, config, ConcEnv))

\* validate up to and including pin_mappings.clear()
ConcStart(t, cfg) ==
    /\ threads[t].pc = "idle"
    /\ threads' = [threads EXCEPT ![t] =
            [IdleThread EXCEPT !.pc = "clear", !.config = cfg]]
    /\ pin_mappings' = <<>>
    /\ UNCHANGED <<conflicts, results, history, last_call, runVars>>

\* conflicts.clear(), find_mcu_specs and the `if not mcu_specs` branch
ConcClear(t) ==
    /\ threads[t].pc = "clear"
    /\ conflicts' = <<>>
    /\ LET cfg == threads[t].config
           mcu_specs == find_mcu_specs(mcu_specs_cache, cfg.board.mcu)
       IN  threads' = [threads EXCEPT ![t] =
                IF ~Found(mcu_specs)
                THEN [@ EXCEPT !.pc = "done",
                        !.final = ConcFinal(cfg,
                            [result |-> NoSchemaResult(
                                            [result |-> NewResult], cfg.board.mcu).result,
                             raised |-> <<>>])]
                ELSE [@ EXCEPT !.pc = "collect", !.todo = AllClaims(cfg)]]
    /\ UNCHANGED <<pin_mappings, results, history, last_call, runVars>>

\* one pass of a collector's loop up to the test `mapping.pin in
\* self.pin_mappings` of add_pin_usage
ConcLookup(t) ==
    /\ threads[t].pc = "collect"
    /\ threads[t].todo # <<>>
    /\ LET th == threads[t]
           mcu_specs == find_mcu_specs(mcu_specs_cache, th.config.board.mcu)
       IN  \E st \in { CollectPinBody([result |-> th.result, det |-> Detector,
                                        calls |-> <<>>, raised |-> <<>>],
                                       Head(th.todo), mcu_specs) } :
            threads' = [threads EXCEPT ![t] =
                IF st.raised # <<>>
                THEN [@ EXCEPT !.pc = "return", !.raised = st.raised]
                ELSE IF st.calls = <<>>
                THEN [@ EXCEPT !.result = st.result, !.todo = Tail(@)]
                ELSE [@ EXCEPT !.cur = st.calls[1], !.todo = Tail(@),
                        !.pc = IF Owned(Detector, st.calls[1].pin)
                               THEN "conflict" ELSE "store"]]
    /\ UNCHANGED <<pin_mappings, conflicts, results, history, last_call, runVars>>

\* the conflict branch of add_pin_usage: existing = self.pin_mappings[pin]
\* raises KeyError if the owner is gone
ConcRecord(t) ==
    /\ threads[t].pc = "conflict"
    /\ LET m == threads[t].cur IN
       IF Owned(Detector, m.pin)
       THEN /\ conflicts' = RecordConflict(Detector, m).conflicts
            /\ threads' = [threads EXCEPT ![t].pc = "collect"]
       ELSE /\ conflicts' = conflicts
            /\ threads' = [threads EXCEPT ![t].pc = "return",
                                ![t].raised = <<"'">> \o m.pin \o <<"'">>]
    /\ UNCHANGED <<pin_mappings, results, history, last_call, runVars>>

\* the free branch of add_pin_usage: self.pin_mappings[pin] = mapping
ConcStore(t) ==
    /\ threads[t].pc = "store"
    /\ pin_mappings' = StoreOwner(Detector, threads[t].cur).pin_mappings
    /\ threads' = [threads EXCEPT ![t].pc = "collect"]
    /\ UNCHANGED <<conflicts, results, history, last_call, runVars>>

\* the collectors are done: conflicts = get_conflicts(), the list itself
ConcCollected(t) ==
    /\ threads[t].pc = "collect"
    /\ threads[t].todo = <<>>
    /\ threads' = [threads EXCEPT ![t].pc = "report", ![t].next_conflict = 1]
    /\ UNCHANGED <<pin_mappings, conflicts, results, history, last_call, runVars>>

\* one pass of `for existing, new in conflicts`
ConcReport(t) ==
    /\ threads[t].pc = "report"
    /\ threads[t].next_conflict <= Len(conflicts)
    /\ threads' = [threads EXCEPT
            ![t].result = ReportConflicts(@,
                            <<get_conflicts(Detector)[threads[t].next_conflict]>>),
            ![t].next_conflict = @ + 1]
    /\ UNCHANGED <<pin_mappings, conflicts, results, history, last_call, runVars>>

\* the loop is exhausted or the pin checker raised: the orchestrator
\* absorbs the pin checker's run, runs the other checkers and returns
ConcReturn(t) ==
    /\ \/ threads[t].pc = "report" /\ threads[t].next_conflict > Len(conflicts)
       \/ threads[t].pc = "return"
    /\ threads' = [threads EXCEPT
            ![t].pc = "done",
            ![t].final = ConcFinal(threads[t].config,
                            [result |-> threads[t].result,
                             raised |-> threads[t].raised])]
    /\ UNCHANGED <<pin_mappings, conflicts, results, history, last_call, runVars>>

NextConc ==
    \E t \in Threads :
        \/ \E cfg \in ConcConfigs : ConcStart(t, cfg)
        \/ ConcClear(t)
        \/ ConcLookup(t)
        \/ ConcRecord(t)
        \/ ConcStore(t)
        \/ ConcCollected(t)
        \/ ConcReport(t)
        \/ ConcReturn(t)

SpecConc == Init /\ [][NextConc]_vars

(***************************************************************************)
(* Claims about one validate call (Spec)                                   *)
(***************************************************************************)
\* `sub in text` for two token sequences
Contains(text, sub) ==
    \E i \in 0..(Len(text) - Len(sub)) :
        \A k \in 1..Len(sub) : text[i + k] = sub[k]

\* the pin checker returned a result for an MCU that has a schema
PinCheckerCompleted ==
    /\ runs > 0
    /\ checker_out[1].raised = <<>>
    /\ Found(find_mcu_specs(mcu_specs_cache, run_config.board.mcu))

PinMessages == checker_out[1].result.messages

\* the registrations of pin p in this run, in call order
ClaimantsOf(p) == SelectSeq(history, LAMBDA m : m.pin = p)

\* a pin_conflict error whose text names both peripherals
NamedTogether(a, b) ==
    \E k \in 1..Len(PinMessages) :
        /\ PinMessages[k].level = ERROR
        /\ PinMessages[k].category = "pin_conflict"
        /\ Contains(PinMessages[k].message, a.peripheral)
        /\ Contains(PinMessages[k].message, b.peripheral)

\* C3 (as stated): for every pin claimed by two or more enabled peripherals,
\* every two claimants of the pin are named together in at least one
\* pin_conflict error of the pin checker's result, also with three or more
\* claimants.
C3_EveryPairNamed ==
    PinCheckerCompleted =>
        \A i, j \in 1..Len(history) :
            (i < j /\ history[i].pin = history[j].pin) =>
                NamedTogether(history[i], history[j])

\* C3: for every pin claimed by two or more enabled peripherals, every
\* claimant after the first is named in a pin_conflict error whose text is
\* "Pin <pin> used by both <first claimant> and <that claimant>"; the error
\* pairs the first claimant with each later one, never two later ones.
C3_LaterNamedWithFirst ==
    PinCheckerCompleted =>
        /\ \A j \in 1..Len(history) :
              LET first == FirstFor(history, history[j].pin) IN
              (\E i \in 1..(j - 1) : history[i].pin = history[j].pin) =>
                \E k \in 1..Len(PinMessages) :
                    /\ PinMessages[k].level = ERROR
                    /\ PinMessages[k].category = "pin_conflict"
                    /\ PinMessages[k].message =
                          <<"Pin ">> \o history[j].pin \o <<" used by both ">>
                            \o first.peripheral \o <<" and ">>
                            \o history[j].peripheral
        /\ \A k \in 1..Len(PinMessages) :
              PinMessages[k].category = "pin_conflict" =>
                \E p \in DOMAIN pin_mappings :
                    Contains(PinMessages[k].message,
                             <<" used by both ">>
                                \o FirstFor(history, p).peripheral \o <<" and ">>)

\* C3 witness: one pin claimed by three different peripherals in a run whose
\* pin checker returned
C3_Witness ==
    /\ PinCheckerCompleted
    /\ \E p \in DOMAIN pin_mappings :
        LET cl == ClaimantsOf(p) IN
        /\ Len(cl) >= 3
        /\ Cardinality({ cl[i].peripheral : i \in 1..Len(cl) }) >= 3

\* the positions of the pin_conflict errors in the pin checker's result
ConflictErrors == SelectSeq(PinMessages, LAMBDA m : m.category = "pin_conflict")

\* C4: pin conflicts are reported only after all five collectors have run:
\* every pin_conflict error follows every pin_format error, there is one
\* pin_conflict error per recorded conflict pair, in the order the pairs
\* were recorded, and their number is the number of registrations minus the
\* number of distinct registered pins.
C4_ConflictsReportedLast ==
    PinCheckerCompleted =>
        /\ \A i, j \in 1..Len(PinMessages) :
              (PinMessages[i].category = "pin_conflict"
                /\ PinMessages[j].category # "pin_conflict") => j < i
        /\ Len(ConflictErrors) = Len(conflicts)
        /\ \A k \in 1..Len(conflicts) :
              /\ ConflictErrors[k].level = ERROR
              /\ ConflictErrors[k].message =
                    <<"Pin ">> \o conflicts[k][1].pin \o <<" used by both ">>
                        \o conflicts[k][1].peripheral \o <<" and ">>
                        \o conflicts[k][2].peripheral
        /\ Len(conflicts) =
              Len(history) - Cardinality({ history[i].pin : i \in 1..Len(history) })

\* C4 witness: a conflict was recorded by an early collector, a later
\* collector reported a pin_format error, and two pairs were reported
C4_Witness ==
    /\ PinCheckerCompleted
    /\ Len(conflicts) >= 2
    /\ conflicts[1][2].usage_type = "GPIO"
    /\ \E j \in 1..Len(PinMessages) :
        /\ PinMessages[j].category = "pin_format"
        /\ PinMessages[j].location = <<"spi.", "spi1">>

(***************************************************************************)
(* Claims about the orchestrator (Spec)                                    *)
(***************************************************************************)
Raised(k) == checker_out[k].raised # <<>>

\* what checker k adds to the final result: its messages, or one error
SegLen(k) == IF Raised(k) THEN 1 ELSE Len(checker_out[k].result.messages)

RECURSIVE Offset(_)
Offset(k) == IF k <= 1 THEN 0 ELSE Offset(k - 1) + SegLen(k - 1)

FinalMessages == final_result.messages

\* C9: if a checker's validate raises, the final result holds exactly one
\* validator_error error naming that checker and no other message from it,
\* every other checker still contributes all of its messages, and validate
\* returns a result.
C9_CheckerFailureIsolated ==
    runs > 0 =>
        /\ Len(FinalMessages) = Offset(5)
        /\ Cardinality({ i \in 1..Len(FinalMessages) :
                            FinalMessages[i].category = "validator_error" })
              = Cardinality({ k \in 1..4 : Raised(k) })
        /\ \A k \in 1..4 :
              IF Raised(k)
              THEN /\ FinalMessages[Offset(k) + 1].level = ERROR
                   /\ FinalMessages[Offset(k) + 1].category = "validator_error"
                   /\ Cardinality({ i \in 1..Len(FinalMessages) :
                            Contains(FinalMessages[i].message, ValidatorNames[k]) }) = 1
                   /\ Contains(FinalMessages[Offset(k) + 1].message,
                               <<"Validation error in ">> \o ValidatorNames[k])
                   /\ ~final_result.is_valid
              ELSE \A i \in 1..Len(checker_out[k].result.messages) :
                        \E n \in 1..Len(FinalMessages) :
                            FinalMessages[n] = checker_out[k].result.messages[i]

\* C9 witness: the pin checker raised after it had reported an error, the
\* business-rule checker raised too, and the two others returned messages
C9_Witness ==
    /\ runs > 0
    /\ Raised(1) /\ checker_out[1].result.messages # <<>>
    /\ Raised(3) /\ checker_out[3].result.messages # <<>>
    /\ ~Raised(2) /\ checker_out[2].result.messages # <<>>
    /\ ~Raised(4) /\ checker_out[4].result.messages # <<>>

\* the categories each checker reports under
CheckerCategories ==
    << {"schema_missing", "pin_format", "pin_conflict"},
       {"schema_missing", "mcu_limits", "mcu_detection"},
       {"i2c_conflict", "i2c_address", "timer_config", "spi_config", "uart_config"},
       {"schema_availability", "schema_validation", "schema_error"} >>

\* the number of messages of one severity the returning checkers produced
RECURSIVE ProducedOfLevel(_, _)
ProducedOfLevel(k, level) ==
    IF k = 0 THEN 0
    ELSE ProducedOfLevel(k - 1, level)
         + (IF Raised(k) THEN 0 ELSE Len(OfLevel(checker_out[k].result, level)))

\* C10: the final result is the four checkers' message sequences one after
\* the other in the order pin checker, capability constraint checker,
\* business-rule checker, structural schema checker, each in its own order,
\* and every warning and info message of a checker is kept whatever errors
\* it or an earlier checker produced.
C10_FixedCheckerOrder ==
    runs > 0 =>
        /\ \A k \in 1..4 :
              ~Raised(k) =>
                /\ SubSeq(FinalMessages, Offset(k) + 1, Offset(k) + SegLen(k))
                        = checker_out[k].result.messages
                /\ \A i \in 1..SegLen(k) :
                        FinalMessages[Offset(k) + i].category \in CheckerCategories[k]
        /\ \A level \in {WARNING, INFO} :
              Len(OfLevel(final_result, level)) = ProducedOfLevel(4, level)

\* C10 witness: no checker raised, the pin checker and the capability
\* checker reported errors, and later checkers reported warnings and info
C10_Witness ==
    /\ runs > 0
    /\ \A k \in 1..4 : ~Raised(k)
    /\ has_errors(checker_out[1].result)
    /\ has_errors(checker_out[2].result)
    /\ Len(OfLevel(checker_out[2].result, INFO)) > 0
    /\ has_errors(checker_out[3].result)
    /\ has_warnings(checker_out[3].result)
    /\ checker_out[4].result.messages # <<>>
    /\ ~has_errors(checker_out[4].result)

(***************************************************************************)
(* Claims about successive validate calls on one validator (SpecSeq)       *)
(***************************************************************************)
\* C5: no pin-usage or diagnostic state persists across sequential runs:
\* the result of each validate call equals the result of the same
\* configuration on a freshly constructed validator over the same
\* capability database, also after a run whose pin checker raised midway,
\* and no owner or conflict pair of an earlier run is visible afterwards.
C5_NoStateAcrossRuns ==
    runs > 0 =>
        \E fresh \in { ConfigValidate(mcu_specs_cache, NewDetector,
                                       run_config, run_env) } :
            /\ final_result = fresh.final_result
            /\ Detector = fresh.det
            /\ \A p \in DOMAIN pin_mappings :
                    \E i \in 1..Len(history) : history[i] = pin_mappings[p]
            /\ \A k \in 1..Len(conflicts) :
                    \E i, j \in 1..Len(history) :
                        i < j /\ conflicts[k] = <<history[i], history[j]>>

\* C5 witness: the second run started on a detector that an aborted run
\* had left with an owner and a conflict pair, and registers the same pin
\* for another peripheral
C5_Witness ==
    /\ runs = 2
    /\ last_call.pre_raised
    /\ last_call.pre.conflicts # <<>>
    /\ conflicts = <<>>
    /\ \E p \in DOMAIN pin_mappings :
        /\ p \in DOMAIN last_call.pre.pin_mappings
        /\ pin_mappings[p] # last_call.pre.pin_mappings[p]

(***************************************************************************)
(* Claims about interleaved validate calls on one validator (SpecConc)     *)
(***************************************************************************)
\* C6: when two validate calls on the same ConfigValidator are interleaved,
\* neither observes registrations, conflict pairs or a clear() of the
\* other: the result each call returns equals the result of its
\* configuration validated alone on a fresh validator.
C6_RunsIsolated ==
    \A t \in Threads :
        threads[t].pc = "done" =>
            threads[t].final =
                ConfigValidate(mcu_specs_cache, NewDetector, threads[t].config,
                               ConcEnv).final_result

(***************************************************************************)
(* Claims about an MCU without a capability record                         *)
(***************************************************************************)
\* no capability record matches the MCU of the validated configuration
NoRecord == ~Found(find_mcu_specs(mcu_specs_cache, run_config.board.mcu))

\* C11: when no capability record matches the configured MCU, the pin
\* checker returns exactly one message, an error of category schema_missing,
\* collects no pin (no pin_format or pin_conflict message, no pin registered
\* in the detector) and does not raise.
C11_NoRecordPinChecker ==
    (runs > 0 /\ NoRecord) =>
        /\ checker_out[1].raised = <<>>
        /\ Len(PinMessages) = 1
        /\ PinMessages[1].level = ERROR
        /\ PinMessages[1].category = "schema_missing"
        /\ PinMessages[1].message =
                <<"No schema found for MCU: ">> \o run_config.board.mcu
        /\ ~checker_out[1].result.is_valid
        /\ pin_mappings = <<>> /\ conflicts = <<>> /\ history = <<>>

\* C11 witness: the second run on a validator whose detector held an owner
\* and a conflict pair, for an unknown MCU, with a GPIO pin and a UART pin
\* that is not a str declared
C11_Witness ==
    /\ runs = 2 /\ NoRecord
    /\ last_call.pre.pin_mappings # <<>> /\ last_call.pre.conflicts # <<>>
    /\ run_config.gpio # <<>>
    /\ run_config.uart # <<>> /\ run_config.uart[1].rx_pin = IntVal

(***************************************************************************)
(* Claims about SchemaBasedMCUValidator.validate (SpecMcu)                 *)
(***************************************************************************)
McuCalled == last_call.op = "mcu_validate"

\* the capability record of the configuration given to the call
McuSpecs == find_mcu_specs(mcu_specs_cache, last_call.config.board.mcu)

McuMessages == last_call.out.result.messages

\* C12: when no capability record matches the configured MCU, the
\* capability constraint checker returns exactly one message, a warning and
\* not an error, makes no clock, voltage or instance-count check, and its
\* result stays valid.
C12_NoRecordMcuChecker ==
    (McuCalled /\ ~Found(McuSpecs)) =>
        /\ last_call.out.raised = <<>>
        /\ Len(McuMessages) = 1
        /\ McuMessages[1].level = WARNING
        /\ McuMessages[1].category = "schema_missing"
        /\ last_call.out.result.is_valid

\* C12 witness: an unknown MCU with a clock that is not a number, a voltage
\* above the explored record's maximum and two enabled UARTs
C12_Witness ==
    /\ McuCalled /\ ~Found(McuSpecs)
    /\ last_call.config.board.clock_frequency = StrNum
    /\ last_call.config.board.voltage > DocValues.MaxVoltage
    /\ EnabledCount(last_call.config.uart) = 2

\* the mcu_limits errors of the call located at `location`
LimitErrors(location) ==
    SelectSeq(McuMessages,
              LAMBDA m : /\ m.level = ERROR /\ m.category = "mcu_limits"
                         /\ m.location = <<location>>)

\* the checker found a record and returned
McuChecked == McuCalled /\ Found(McuSpecs) /\ last_call.out.raised = <<>>

\* C14: board-level limits are inclusive: with a capability record present
\* there is exactly one mcu_limits error for the clock iff clock_frequency
\* exceeds max_clock (none at max_clock itself), and exactly one for the
\* voltage iff the voltage is below min_voltage or above max_voltage (none
\* at either bound).
C14_BoardLimitsInclusive ==
    McuChecked =>
        LET board == last_call.config.board IN
        /\ Len(LimitErrors("board.clock_frequency")) =
                (IF board.clock_frequency.v > McuSpecs.max_clock THEN 1 ELSE 0)
        /\ Len(LimitErrors("board.voltage")) =
                (IF board.voltage < McuSpecs.min_voltage
                    \/ board.voltage > McuSpecs.max_voltage THEN 1 ELSE 0)

\* C14 witness: the clock is one above the maximum and the voltage is the
\* maximum itself, so one error is for the clock and none for the voltage
C14_Witness ==
    /\ McuChecked
    /\ last_call.config.board.clock_frequency.v = McuSpecs.max_clock + 1
    /\ last_call.config.board.voltage = McuSpecs.max_voltage
    /\ Len(LimitErrors("board.clock_frequency")) = 1

\* C15: for each peripheral kind in UART, I2C, SPI, Timer, with a capability
\* record present, there is exactly one mcu_limits error for the kind iff
\* the number of enabled instances of the kind exceeds the record's limit
\* for it; a count equal to the limit yields none and disabled instances
\* are not counted.
C15_InstanceLimits ==
    McuChecked =>
        LET cfg == last_call.config IN
        /\ Len(LimitErrors("uart")) =
                (IF EnabledCount(cfg.uart) > McuSpecs.uart_count THEN 1 ELSE 0)
        /\ Len(LimitErrors("i2c")) =
                (IF EnabledCount(cfg.i2c) > McuSpecs.i2c_count THEN 1 ELSE 0)
        /\ Len(LimitErrors("spi")) =
                (IF EnabledCount(cfg.spi) > McuSpecs.spi_count THEN 1 ELSE 0)
        /\ Len(LimitErrors("timers")) =
                (IF EnabledCount(cfg.timers) > McuSpecs.timer_count THEN 1 ELSE 0)

\* C16: whenever a capability record is found, the capability constraint
\* checker's result holds exactly one info message, naming package type and
\* pin count, as its last message, whether or not a clock, voltage or
\* instance-count error was emitted.
C16_OneInfoLast ==
    McuChecked =>
        /\ Len(OfLevel(last_call.out.result, INFO)) = 1
        /\ McuMessages[Len(McuMessages)].level = INFO
        /\ McuMessages[Len(McuMessages)].category = "mcu_detection"
        /\ McuMessages[Len(McuMessages)].message =
                <<"Detected MCU package: ">> \o McuSpecs.package_type
                    \o <<" (", ToString(McuSpecs.pin_count), " pins)">>

\* C16 witness: clock, voltage and an instance count are all over their
\* limits and the info message follows the three errors
C16_Witness ==
    /\ McuChecked
    /\ Len(LimitErrors("board.clock_frequency")) = 1
    /\ Len(LimitErrors("board.voltage")) = 1
    /\ Len(LimitErrors("i2c")) = 1
    /\ Len(McuMessages) = 4

(***************************************************************************)
(* Claims about absent data in a full validate call (Spec)                 *)
(***************************************************************************)
\* the messages of the final result that report an absent capability
\* record or an absent or unreadable schema document
AbsenceMessages ==
    SelectSeq(FinalMessages,
              LAMBDA m : m.category \in {"schema_missing", "schema_availability",
                                         "schema_error"})

\* C13 (as stated): for a configuration whose MCU has no capability record
\* and no schema document, validate completes all four checkers and the
\* messages reporting the absent record or schema have severity warning or
\* info only.
C13_AbsenceNeverAnError ==
    (runs > 0 /\ NoRecord) =>
        /\ Len(checker_out) = 4
        /\ ~Raised(1) /\ ~Raised(2)
        /\ \A k \in 1..Len(AbsenceMessages) :
                AbsenceMessages[k].level \in {WARNING, INFO}

\* C13: for a configuration whose MCU has no capability record and no
\* schema document, validate runs all four checkers and none of them raises
\* because of the absence; the capability constraint checker reports the
\* absence as one warning and the schema checker as one info message, but
\* the pin checker reports it as one schema_missing error, which is the
\* first message of the final result and makes the result invalid.
C13_AbsenceDegradesButPins ==
    (runs > 0 /\ NoRecord) =>
        LET text == <<"No schema found for MCU: ">> \o run_config.board.mcu IN
        /\ Len(checker_out) = 4
        /\ ~Raised(1) /\ ~Raised(2)
        /\ FinalMessages[1].level = ERROR
        /\ FinalMessages[1].category = "schema_missing"
        /\ FinalMessages[1].message = text
        /\ FinalMessages[2].level = WARNING
        /\ FinalMessages[2].category = "schema_missing"
        /\ FinalMessages[2].message = text
        /\ ~Raised(4) =>
                /\ checker_out[4].result.messages[1].level = INFO
                /\ checker_out[4].result.messages[1].category = "schema_availability"
                /\ checker_out[4].result.messages[1].message = text
        /\ Len(SelectSeq(AbsenceMessages, LAMBDA m : m.level = ERROR)) = 1
        /\ ~final_result.is_valid

\* C13 witness: an unknown MCU, pins declared, and no other error than the
\* pin checker's: every checker returned and the result is invalid only
\* because of the absent record
C13_Witness ==
    /\ runs > 0 /\ NoRecord
    /\ \A k \in 1..4 : ~Raised(k)
    /\ run_config.gpio # <<>>
    /\ Len(OfLevel(final_result, ERROR)) = 1
    /\ Len(AbsenceMessages) >= 3

(***************************************************************************)
(* Claims about PeripheralValidator.validate (SpecPeriph)                  *)
(***************************************************************************)
PeriphReturned == last_call.op = "peripheral_validate" /\ last_call.out.raised = <<>>

PeriphMessages == last_call.out.result.messages

\* the messages of one category and severity located at `location`
MessagesAt(level, category, location) ==
    SelectSeq(PeriphMessages,
              LAMBDA m : /\ m.level = level /\ m.category = category
                         /\ m.location = location)

\* the addresses that more than one device of the bus has
RepeatedAddresses(i2c) ==
    { i2c.devices[i].address.v : i \in
        { i \in 1..Len(i2c.devices) :
            \E j \in 1..Len(i2c.devices) :
                j # i /\ i2c.devices[j].address = i2c.devices[i].address } }

\* C17: for every enabled I2C bus each address that more than one device of
\* the bus has produces exactly one i2c_conflict error, whatever the number
\* of devices sharing it; other buses and disabled buses never add one.
C17_OneConflictPerAddress ==
    PeriphReturned =>
        \A b \in 1..Len(last_call.config.i2c) :
            LET i2c == last_call.config.i2c[b] IN
            Len(MessagesAt(ERROR, "i2c_conflict", <<"i2c.">> \o i2c.name)) =
                (IF i2c.enabled THEN Cardinality(RepeatedAddresses(i2c)) ELSE 0)

\* C18: for every device of an enabled I2C bus there is exactly one
\* i2c_address error iff its address is below 0x08 or above 0x77 (0x08 and
\* 0x77 are accepted), whether or not the address repeats another device's.
C18_AddressRange ==
    PeriphReturned =>
        \A b \in 1..Len(last_call.config.i2c) :
            LET i2c == last_call.config.i2c[b] IN
            \A d \in 1..Len(i2c.devices) :
                Len(MessagesAt(ERROR, "i2c_address",
                               <<"i2c.">> \o i2c.name \o <<".">>
                                    \o i2c.devices[d].name)) =
                    (IF i2c.enabled /\ (i2c.devices[d].address.v < 8
                                         \/ i2c.devices[d].address.v > 119)
                     THEN 1 ELSE 0)

\* C18 witness: a bus with the devices 0x08, 0x78 and 0x78 again: the first
\* is accepted, the two others are each out of range, the third repeats
C18_Witness ==
    /\ PeriphReturned
    /\ Len(last_call.config.i2c) = 1
    /\ DevicesAt(<<8, 120, 120>>) = last_call.config.i2c[1].devices
    /\ Len(SelectSeq(PeriphMessages, LAMBDA m : m.category = "i2c_address")) = 2
    /\ Len(SelectSeq(PeriphMessages, LAMBDA m : m.category = "i2c_conflict")) = 1

\* 1 if the condition is violated, else 0
Count(violated) == IF violated THEN 1 ELSE 0

\* C19: for every enabled timer the number of timer_config errors is the
\* number of violated conditions, each counted on its own: in pwm mode a
\* duty cycle missing or outside [0,100], an output pin empty or missing, a
\* channel missing or outside [1,4]; in every mode a prescaler outside
\* [1,65536] and a period outside [1,65536].  A disabled timer adds none.
C19_TimerErrorsCounted ==
    PeriphReturned =>
        \A k \in 1..Len(last_call.config.timers) :
            LET t == last_call.config.timers[k]
                pwm == t.mode = "pwm"
                duty == t.duty_cycle
                ch == t.channel
            IN  Len(MessagesAt(ERROR, "timer_config", <<"timers.">> \o t.name)) =
                    (IF ~t.enabled THEN 0
                     ELSE Count(pwm /\ (duty.kind = "none" \/ duty.v < 0 \/ duty.v > 100))
                        + Count(pwm /\ (t.output_pin = <<>> \/ t.output_pin = NoneVal))
                        + Count(pwm /\ (ch.kind = "none" \/ ch.v < 1 \/ ch.v > 4))
                        + Count(t.prescaler < 1 \/ t.prescaler > 65536)
                        + Count(t.period < 1 \/ t.period > 65536))

\* C19 witness: an enabled pwm timer with duty cycle 100, channel 5, no
\* output pin, prescaler 65536 and period 65537: three errors
C19_Witness ==
    /\ PeriphReturned
    /\ Len(last_call.config.timers) = 1
    /\ last_call.config.timers[1] =
            TestTimer(TRUE, "pwm", Num(100), <<>>, Num(5), 65536, 65537)
    /\ Len(PeriphMessages) = 3

\* C20: for every enabled SPI instance there is one spi_config error iff
\* sck_pin is empty and one iff mosi_pin is empty, and a warning, never an
\* error, iff the chip-select list is empty; with sck and mosi set and no
\* chip-select the result stays valid; an empty miso_pin adds nothing.
C20_SpiRequiredPins ==
    PeriphReturned =>
        /\ \A k \in 1..Len(last_call.config.spi) :
            LET spi == last_call.config.spi[k]
                loc == <<"spi.">> \o spi.name
                empty(pin) == pin = <<>> \/ pin = NoneVal
            IN  /\ Len(MessagesAt(ERROR, "spi_config", loc)) =
                        (IF spi.enabled
                         THEN Count(empty(spi.sck_pin)) + Count(empty(spi.mosi_pin))
                         ELSE 0)
                /\ Len(MessagesAt(WARNING, "spi_config", loc)) =
                        Count(spi.enabled /\ spi.cs_pins = <<>>)
                /\ Len(MessagesAt(INFO, "spi_config", loc)) = 0
        /\ (\A k \in 1..Len(last_call.config.spi) :
                LET spi == last_call.config.spi[k] IN
                spi.enabled => IsStr(spi.sck_pin) /\ spi.sck_pin # <<>>
                               /\ IsStr(spi.mosi_pin) /\ spi.mosi_pin # <<>>)
            => (last_call.config.timers = <<>> /\ last_call.config.i2c = <<>>
                    => last_call.out.result.is_valid)

\* C20 witness: an enabled SPI with sck and mosi set, no miso and no
\* chip-select: one warning and a valid result
C20_Witness ==
    /\ PeriphReturned
    /\ last_call.config.spi = <<TestSpi("spi1", TRUE, PA0, <<>>, PB0, <<>>)>>
    /\ Len(PeriphMessages) = 1
    /\ PeriphMessages[1].level = WARNING
    /\ last_call.out.result.is_valid

(***************************************************************************)
(* Specification SpecPinFormat: one call of _validate_pin_against_schema   *)
(* on a pin string and the capability record of the explored document.    *)
(***************************************************************************)
MaxPinLen == 4

\* the characters the explored pin strings are made of
PinTokens == {"P", "A", "Z", "0", "1", "2", "+", "-", " ", "_", "x"}

\* every string of at most MaxPinLen characters, and pins of port B, which
\* the document declares without a maximum
PinStrings ==
    UNION { [1..n -> PinTokens] : n \in 0..MaxPinLen }
        \cup { <<"P", "B", "1", "5">>, <<"P", "B", "1", "6">>, <<"P", "B", "9">>,
               <<"P", "A", "0", "0", "1">> }

\* the record find_mcu_specs returns for the explored MCU
KnownSpecs == find_mcu_specs(_load_all_schemas(<<>>, SchemaDocs), KnownMcu)

\* self._validate_pin_against_schema(pin, mcu_specs)
PinFormatCall(pin, mcu_specs) ==
    /\ last_call' = [op |-> "pin_format", pin |-> pin, mcu_specs |-> mcu_specs,
                     out |-> _validate_pin_against_schema(pin, mcu_specs)]
    /\ UNCHANGED <<results, pin_mappings, conflicts, history, runVars, threads>>

\* the function keeps no state: one call per behaviour
NextPinFormat ==
    last_call.op = "none" /\ \E pin \in PinStrings : PinFormatCall(pin, KnownSpecs)

SpecPinFormat == Init /\ [][NextPinFormat]_vars

\* a decimal number: one or more digits and nothing else
PlainDecimal(s) == s # <<>> /\ \A i \in 1..Len(s) : IsDigit(s[i])

\* the pin has the form P <port> <decimal number>, the port is declared and
\* the number is below the port's pin count
WellFormedPin(pin, mcu_specs) ==
    /\ Len(pin) >= 3
    /\ pin[1] = "P"
    /\ \E i \in 1..Len(mcu_specs.gpio_ports) : mcu_specs.gpio_ports[i] = pin[2]
    /\ PlainDecimal(SubSeq(pin, 3, Len(pin)))
    /\ DigitsValue(SubSeq(pin, 3, Len(pin)), 0) < MaxPinsFor(mcu_specs, pin[2])

\* C22: _validate_pin_against_schema accepts a pin string iff it is
\* 'P' + a declared port letter + a decimal number n with 0 <= n < max_pins
\* of that port; every other string is rejected, and no string raises.
C22_PinFormat ==
    last_call.op = "pin_format" =>
        /\ last_call.out # "raise"
        /\ last_call.out = "true" <=> WellFormedPin(last_call.pin, last_call.mcu_specs)

(***************************************************************************)
(* Specification SpecPins: one call of SchemaBasedPinValidator.validate on *)
(* a fresh validator, over configurations whose peripherals declare valid, *)
(* invalid, empty and differently spelled pins in every role.              *)
(***************************************************************************)
PA00 == <<"P", "A", "0", "0">>

PinBoard == Board(KnownMcu, Num(DocValues.MaxClock))

PinGpios ==
    { <<>> } \cup { <<Gpio(p)>> : p \in {PA0, PA00, PZ0} }
             \cup { <<Gpio(p), Gpio(q)>> : p, q \in {PA0, PA00, PZ0} }

PinUarts ==
    { <<>>, <<Uart(TRUE, PA0, PA1)>>, <<Uart(TRUE, <<>>, PA0)>>,
      <<Uart(TRUE, PZ0, <<>>)>>, <<Uart(FALSE, PA0, PA0)>> }

PinI2cs ==
    { <<>> } \cup
    { <<[I2c(TRUE, <<>>) EXCEPT !.scl_pin = scl, !.sda_pin = sda]>> :
        scl \in {<<>>, PB0}, sda \in {<<>>, PA1} }

PinSpis ==
    { <<>> } \cup
    { <<TestSpi("spi1", TRUE, sck, miso, mosi, cs)>> :
        sck \in {<<>>, PB1}, miso \in {<<>>, PA1}, mosi \in {<<>>, PZ0},
        cs \in { <<>>, << <<>> >>, <<PB0, PA0>> } }

PinTimers ==
    { <<>>, <<Timer(TRUE, "pwm", Num(50), PA0)>>, <<Timer(TRUE, "pwm", Num(50), <<>>)>>,
      <<Timer(TRUE, "basic", Num(50), PA0)>>, <<Timer(TRUE, "pwm", Num(50), PZ0)>> }

PinConfigs ==
    { [board |-> PinBoard, gpio |-> g, uart |-> u, i2c |-> i, spi |-> sp,
       timers |-> t] :
        g \in PinGpios, u \in PinUarts, i \in PinI2cs, sp \in PinSpis,
        t \in PinTimers }

\* pin_validator.validate(cfg) on a validator that has not run before
PinsCall(cfg) ==
    /\ last_call' = [op |-> "pin_validate", config |-> cfg,
                     out |-> PinValidate(mcu_specs_cache, NewDetector, cfg)]
    /\ UNCHANGED <<results, pin_mappings, conflicts, history, runVars, threads>>

NextPins == last_call.op = "none" /\ \E cfg \in PinConfigs : PinsCall(cfg)

SpecPins == Init /\ [][NextPins]_vars

PinsReturned == last_call.op = "pin_validate" /\ last_call.out.raised = <<>>

\* the declared pins that reach pin validation: every pin the collectors
\* visit, but the empty ones they skip
DeclaredPins(config) ==
    SelectSeq(AllClaims(config), LAMBDA c : ~(c.skip_empty /\ Falsy(c.pin)))

InvalidPins(config) ==
    SelectSeq(DeclaredPins(config),
              LAMBDA c : _validate_pin_against_schema(c.pin, KnownSpecs) = "false")

PinErrors(category) ==
    SelectSeq(last_call.out.result.messages, LAMBDA m : m.category = category)

\* C23: a pin that fails validation is never registered: the pin_format
\* errors are one per declared invalid pin, in order and naming it; no
\* add_pin_usage call, owner or conflict pair holds an invalid pin; and when
\* every pair of equal declared pins is a pair of invalid pins there is no
\* pin_conflict error.
C23_InvalidNeverRegistered ==
    PinsReturned =>
        LET cfg == last_call.config
            bad == InvalidPins(cfg)
            det == last_call.out.det
            valid(p) == _validate_pin_against_schema(p, KnownSpecs) = "true"
        IN  /\ Len(PinErrors("pin_format")) = Len(bad)
            /\ \A k \in 1..Len(bad) :
                    /\ PinErrors("pin_format")[k].level = ERROR
                    /\ PinErrors("pin_format")[k].message = bad[k].invalid_text \o bad[k].pin
                    /\ PinErrors("pin_format")[k].location = bad[k].location
            /\ \A k \in 1..Len(last_call.out.calls) : valid(last_call.out.calls[k].pin)
            /\ \A p \in DOMAIN det.pin_mappings : valid(p)
            /\ \A k \in 1..Len(det.conflicts) :
                    valid(det.conflicts[k][1].pin) /\ valid(det.conflicts[k][2].pin)
            /\ (\A i, j \in 1..Len(DeclaredPins(cfg)) :
                    (i # j /\ DeclaredPins(cfg)[i].pin = DeclaredPins(cfg)[j].pin)
                        => ~valid(DeclaredPins(cfg)[i].pin))
                => PinErrors("pin_conflict") = <<>>

\* C23 witness: two GPIO entries and the UART declare the same invalid pin
\* PZ0: three pin_format errors, nothing registered, no conflict
C23_Witness ==
    /\ PinsReturned
    /\ last_call.config.gpio = <<Gpio(PZ0), Gpio(PZ0)>>
    /\ last_call.config.uart = <<Uart(TRUE, PZ0, <<>>)>>
    /\ last_call.config.i2c = <<>> /\ last_call.config.spi = <<>>
    /\ last_call.config.timers = <<>>
    /\ Len(PinErrors("pin_format")) = 3
    /\ PinErrors("pin_conflict") = <<>>
    /\ last_call.out.calls = <<>>

\* the roles of the peripherals' pins in the order the claim gives
Roles == <<"TX", "RX", "SCL", "SDA", "SCK", "MISO", "MOSI", "CS0", "CS1", " PWM">>

\* the place of a registration in that order: a GPIO entry by its index,
\* every other pin by the role its peripheral text ends with
RegistrationRank(m) ==
    IF m.usage_type = "GPIO"
    THEN CHOOSE i \in 0..9 : ToString(i) = m.config_location[2]
    ELSE 10 + (CHOOSE k \in 1..Len(Roles) : Roles[k] = m.peripheral[Len(m.peripheral)])

ValidDeclared(config) ==
    SelectSeq(DeclaredPins(config),
              LAMBDA c : _validate_pin_against_schema(c.pin, KnownSpecs) = "true")

\* C27: the valid declared pins are registered in the order GPIO entries,
\* UART TX, RX, I2C SCL, SDA, SPI SCK, MISO, MOSI, CS0, CS1, Timer PWM; and
\* when a GPIO entry and the enabled UART's tx pin name the same valid pin
\* and no other two declared valid pins are equal, there is exactly one
\* pin_conflict error, naming the GPIO usage first and 'UART <name> TX'
\* second.
C27_RegistrationOrder ==
    PinsReturned =>
        LET cfg == last_call.config
            calls == last_call.out.calls
            ok == ValidDeclared(cfg)
        IN  /\ Len(calls) = Len(ok)
            /\ \A i, j \in 1..Len(calls) :
                    i < j => RegistrationRank(calls[i]) < RegistrationRank(calls[j])
            /\ \A g \in 1..Len(cfg.gpio), u \in 1..Len(cfg.uart) :
                    ( /\ cfg.uart[u].enabled
                      /\ cfg.gpio[g].pin = cfg.uart[u].tx_pin
                      /\ _validate_pin_against_schema(cfg.gpio[g].pin, KnownSpecs) = "true"
                      /\ \A i, j \in 1..Len(ok) :
                            (i < j /\ ok[i].pin = ok[j].pin)
                                => (ok[i].usage_type = "GPIO"
                                    /\ ok[i].location = <<"gpio[", ToString(g - 1), "]">>
                                    /\ ok[j].peripheral
                                        = <<"UART ">> \o cfg.uart[u].name \o <<" ", "TX">>) )
                    => /\ Len(PinErrors("pin_conflict")) = 1
                       /\ PinErrors("pin_conflict")[1].level = ERROR
                       /\ PinErrors("pin_conflict")[1].message =
                            <<"Pin ">> \o cfg.gpio[g].pin \o <<" used by both ">>
                                \o <<"GPIO (">> \o cfg.gpio[g].direction \o <<")">>
                                \o <<" and ">>
                                \o <<"UART ">> \o cfg.uart[u].name \o <<" ", "TX">>

\* C27 witness: GPIO PA0 and UART uart1 with tx PA0 and rx PA1, an I2C bus
\* with scl PB0 and an SPI with sck PB1: five pins registered in order and
\* the one conflict between the GPIO entry and the UART's TX
C27_Witness ==
    /\ PinsReturned
    /\ last_call.config.gpio = <<Gpio(PA0)>>
    /\ last_call.config.uart = <<Uart(TRUE, PA0, PA1)>>
    /\ last_call.config.i2c = <<[I2c(TRUE, <<>>) EXCEPT !.sda_pin = <<>>]>>
    /\ last_call.config.spi = <<TestSpi("spi1", TRUE, PB1, <<>>, <<>>, <<>>)>>
    /\ last_call.config.timers = <<>>
    /\ Len(last_call.out.calls) = 5
    /\ Len(PinErrors("pin_conflict")) = 1

\* the pin_format messages of the collectors are built from these pieces
InvalidTextOf(kind, name, role) ==
    <<"Invalid " \o kind \o " ">> \o name \o <<" ", role, " pin: ">>

EmptyReported(kind, name, role) ==
    \E k \in 1..Len(PinErrors("pin_format")) :
        /\ PinErrors("pin_format")[k].level = ERROR
        /\ PinErrors("pin_format")[k].message = InvalidTextOf(kind, name, role)

\* C28: an empty pin is skipped silently only in the optional roles, UART
\* tx/rx and SPI chip-select; an empty I2C scl/sda or SPI sck/miso/mosi of an
\* enabled peripheral is validated and yields a pin_format error.
C28_EmptyOnlyOptional ==
    PinsReturned =>
        LET cfg == last_call.config IN
        /\ \A k \in 1..Len(cfg.uart) :
                cfg.uart[k].enabled =>
                    /\ cfg.uart[k].tx_pin = <<>> => ~EmptyReported("UART", cfg.uart[k].name, "TX")
                    /\ cfg.uart[k].rx_pin = <<>> => ~EmptyReported("UART", cfg.uart[k].name, "RX")
        /\ \A k \in 1..Len(cfg.i2c) :
                cfg.i2c[k].enabled =>
                    /\ cfg.i2c[k].scl_pin = <<>> => EmptyReported("I2C", cfg.i2c[k].name, "SCL")
                    /\ cfg.i2c[k].sda_pin = <<>> => EmptyReported("I2C", cfg.i2c[k].name, "SDA")
        /\ \A k \in 1..Len(cfg.spi) :
                cfg.spi[k].enabled =>
                    /\ cfg.spi[k].sck_pin = <<>> => EmptyReported("SPI", cfg.spi[k].name, "SCK")
                    /\ cfg.spi[k].miso_pin = <<>> => EmptyReported("SPI", cfg.spi[k].name, "MISO")
                    /\ cfg.spi[k].mosi_pin = <<>> => EmptyReported("SPI", cfg.spi[k].name, "MOSI")
                    /\ \A c \in 1..Len(cfg.spi[k].cs_pins) :
                            cfg.spi[k].cs_pins[c] = <<>> =>
                                ~EmptyReported("SPI", cfg.spi[k].name, "CS" \o ToString(c - 1))

\* the port letter and the pin number a valid pin string denotes
PhysicalPin(pin) == <<pin[2], PyInt(SubSeq(pin, 3, Len(pin))).v>>

\* C30: two registered claims whose pin strings denote the same port and
\* pin number are recorded as a conflict and reported as a pin_conflict
\* error, whatever their spelling.
C30_SamePinConflicts ==
    PinsReturned =>
        LET calls == last_call.out.calls IN
        \A i, j \in 1..Len(calls) :
            (i < j /\ PhysicalPin(calls[i].pin) = PhysicalPin(calls[j].pin))
                => \E k \in 1..Len(last_call.out.det.conflicts) :
                        /\ last_call.out.det.conflicts[k][2] = calls[j]
                        /\ \E m \in 1..Len(PinErrors("pin_conflict")) :
                                PinErrors("pin_conflict")[m] =
                                    ConflictMessage(last_call.out.det.conflicts[k][1],
                                                    calls[j])

(***************************************************************************)
(* Specification SpecDb: SchemaBasedMCUDatabase built over a directory of  *)
(* schema documents, which glob yields in any order, then one lookup.      *)
(***************************************************************************)
MaxDocs == 3

\* a document with patterns only: no package_constraints, no
\* peripheral_limits, no board properties, no package_info
BareDoc == [stem |-> <<"bare">>, wellformed |-> TRUE,
            mcu_patterns |-> << <<"Z", "?">> >>]

\* a file that is not JSON
BrokenDoc == [stem |-> <<"broken">>, wellformed |-> FALSE]

\* a document whose pattern holds a '.'
DotDoc == [stem |-> <<"dot">>, wellformed |-> TRUE,
           mcu_patterns |-> << <<"x", "4", ".", "g">> >>, uart_count |-> 2]

\* a document whose second pattern is a number
NumberPatternDoc ==
    [stem |-> <<"numpat">>, wellformed |-> TRUE,
     mcu_patterns |-> << <<"V", "*">>, IntVal, <<"W", "*">> >>, uart_count |-> 3]

\* a document whose package_constraints is a list
ListConstraintsDoc ==
    [stem |-> <<"listpc">>, wellformed |-> TRUE,
     mcu_patterns |-> << <<"g", "*">> >>, constraints_not_object |-> TRUE]

DocFamily ==
    { SchemaDocs[1], BareDoc, BrokenDoc, DotDoc, NumberPatternDoc, ListConstraintsDoc }

\* the documents of a directory in an order glob may yield them
DocSeqs ==
    { d \in UNION { [1..n -> DocFamily] : n \in 0..MaxDocs } :
        \A i, j \in 1..Len(d) : i # j => d[i] # d[j] }

LookupIds ==
    { KnownMcu, Lower(KnownMcu), UnknownMcu, <<"Z">>, <<"x", "4", ".", "g">>,
      <<"X", "4", "V", "G">>, <<"V", "V">>, <<"W", "W">>, <<"g", "1">>, <<>> }

\* the state after `self.mcu_specs_cache = {}` in __init__
InitDb ==
    /\ results = [i \in {1, 2} |-> NewResult]
    /\ pin_mappings = NewDetector.pin_mappings
    /\ conflicts = NewDetector.conflicts
    /\ history = <<>>
    /\ last_call = [op |-> "none"]
    /\ threads = [t \in Threads |-> IdleThread]
    /\ mcu_specs_cache = <<>>
    /\ run_config = EmptyConfig
    /\ run_env = [mcu_schema |-> "pass", device_schema |-> "pass"]
    /\ final_result = NewResult
    /\ checker_out = <<>>
    /\ runs = 0

\* _load_all_schemas() over the documents in the order `docs`
DbLoad(docs) ==
    /\ last_call.op = "none"
    /\ \E st \in {LoadAll([cache |-> mcu_specs_cache, log |-> <<>>,
                            failed |-> FALSE], docs)} :
        /\ mcu_specs_cache' = st.cache
        /\ last_call' = [op |-> "load", docs |-> docs, log |-> st.log,
                         id |-> <<>>, out |-> NoSpecs]
    /\ UNCHANGED <<results, pin_mappings, conflicts, history, threads, run_config,
                   run_env, final_result, checker_out, runs>>

\* find_mcu_specs(id) on the loaded database
DbFind(id) ==
    /\ last_call.op = "load"
    /\ last_call' = [last_call EXCEPT !.op = "find", !.id = id,
                                      !.out = find_mcu_specs(mcu_specs_cache, id)]
    /\ UNCHANGED <<results, pin_mappings, conflicts, history, runVars, threads>>

NextDb ==
    \/ \E docs \in DocSeqs : DbLoad(docs)
    \/ \E id \in LookupIds : DbFind(id)

SpecDb == InitDb /\ [][NextDb]_vars

\* the index of the patterns the cache holds
CachePatterns == { mcu_specs_cache[i][1] : i \in 1..Len(mcu_specs_cache) }

Loaded(doc) == \E k \in 1..Len(last_call.docs) : last_call.docs[k] = doc

\* C24: a well-formed document without constraint fields yields the
\* conservative fallback record: ports A to E with 16 pins each, 200 MHz,
\* 1.8 to 5.5 V and the default instance counts, so that PA0 validates.
C24_FallbackRecord ==
    (last_call.op = "find" /\ Found(last_call.out)
        /\ last_call.out.schema_file = BareDoc.stem) =>
        /\ last_call.out = FallbackSpecs(BareDoc)
        /\ _validate_pin_against_schema(PA0, last_call.out) = "true"

\* the match the claim describes: '*' a run of characters, '?' one
\* character, every other character itself
RECURSIVE GlobMatch(_, _)
GlobMatch(text, pattern) ==
    IF pattern = <<>> THEN text = <<>>
    ELSE IF Head(pattern) = "*"
         THEN \E k \in 0..Len(text) :
                GlobMatch(SubSeq(text, k + 1, Len(text)), Tail(pattern))
    ELSE IF text = <<>> THEN FALSE
    ELSE /\ (Head(pattern) = "?" \/ Head(pattern) = Head(text))
         /\ GlobMatch(Tail(text), Tail(pattern))

\* every pattern the document declares is a string
PatternsAreStrings(doc) ==
    \A k \in 1..Len(Get(doc, "mcu_patterns", <<>>)) : IsStr(doc.mcu_patterns[k])

\* the document's record is indexed under each of its patterns, lower-cased
IndexedUnderAll(doc) ==
    \A k \in 1..Len(Get(doc, "mcu_patterns", <<>>)) :
        \E i \in 1..Len(mcu_specs_cache) :
            /\ mcu_specs_cache[i][1] = Lower(doc.mcu_patterns[k])
            /\ mcu_specs_cache[i][2] = _extract_specs_from_schema(doc)

\* C25: find_mcu_specs returns a record iff an indexed pattern matches the
\* whole lower-cased id, with '*' any run, '?' one character and every other
\* character itself; every document is indexed under each of its patterns
\* lower-cased.
C25_GlobLookup ==
    last_call.op = "find" =>
        /\ Found(last_call.out)
                <=> \E pattern \in CachePatterns : GlobMatch(Lower(last_call.id), pattern)
        /\ \A k \in 1..Len(last_call.docs) :
                (last_call.docs[k].wellformed /\ PatternsAreStrings(last_call.docs[k]))
                    => IndexedUnderAll(last_call.docs[k])

\* the document is one the loader cannot load: not readable as JSON, or
\* with a pattern that is not a string
Malformed(doc) == ~doc.wellformed \/ ~PatternsAreStrings(doc)

\* C26: whatever the order of the documents, every malformed document has
\* its warning and no index entry, and every well-formed document is indexed
\* under all of its patterns and is what a lookup of an id of its patterns
\* returns.
C26_PartialLoad ==
    last_call.op = "load" =>
        \A k \in 1..Len(last_call.docs) :
            LET doc == last_call.docs[k] IN
            IF Malformed(doc)
            THEN /\ \E n \in 1..Len(last_call.log) : last_call.log[n] = WarningLine(doc)
                 /\ \A i \in 1..Len(mcu_specs_cache) :
                        mcu_specs_cache[i][2].schema_file # doc.stem
            ELSE /\ IndexedUnderAll(doc)
                 /\ \A id \in LookupIds :
                        (\E p \in 1..Len(doc.mcu_patterns) :
                            _match_pattern(Lower(id), Lower(doc.mcu_patterns[p])))
                        => find_mcu_specs(mcu_specs_cache, id)
                                = _extract_specs_from_schema(doc)

(***************************************************************************)
(* Specification SpecInert: the pin checker, the MCU checker and the       *)
(* peripheral checker called on two configurations that differ only in     *)
(* the fields of disabled peripheral entries.                              *)
(***************************************************************************)
\* the entries of each kind: one enabled entry, and a second entry that is
\* enabled or not
InertUarts(enabled) ==
    << Uart(TRUE, PA0, <<>>), [Uart(enabled, PA1, <<>>) EXCEPT !.name = <<"uart2">>] >>

InertI2cs(enabled) ==
    << I2c(TRUE, <<Device(<<"d1">>, Num(72), <<"bme280">>)>>),
       [I2c(enabled, <<>>) EXCEPT !.name = <<"i2c2">>, !.scl_pin = PB0] >>

InertSpis(enabled) ==
    << TestSpi("spi1", TRUE, PA1, <<>>, PB1, <<PB0>>),
       TestSpi("spi2", enabled, PB1, <<>>, PB1, <<>>) >>

InertTimers(enabled) ==
    << Timer(TRUE, "pwm", Num(50), PA0),
       [Timer(enabled, "basic", Num(50), <<>>) EXCEPT !.name = <<"tim2">>] >>

InertBases ==
    { [board |-> PinBoard, gpio |-> g, uart |-> InertUarts(u), i2c |-> InertI2cs(i),
       spi |-> InertSpis(sp), timers |-> InertTimers(t)] :
        g \in {<<>>, <<Gpio(PA0)>>}, u \in BOOLEAN, i \in BOOLEAN, sp \in BOOLEAN,
        t \in BOOLEAN }

\* the entry with other fields, when it is disabled
UartVariants(uart) ==
    IF uart.enabled THEN {uart}
    ELSE { [uart EXCEPT !.tx_pin = tx, !.rx_pin = rx] :
            tx \in {<<>>, PA0, PZ0}, rx \in {<<>>, PA0} }

I2cVariants(i2c) ==
    IF i2c.enabled THEN {i2c}
    ELSE { [i2c EXCEPT !.scl_pin = scl, !.devices = devices] :
            scl \in {<<>>, PA0},
            devices \in { <<>>,
                          <<Device(<<"d1">>, Num(7), <<"x">>),
                            Device(<<"d2">>, Num(7), NoneVal)>>,
                          <<Device(<<"d1">>, StrNum, <<"x">>)>> } }

SpiVariants(spi) ==
    IF spi.enabled THEN {spi}
    ELSE { [spi EXCEPT !.sck_pin = sck, !.mosi_pin = mosi, !.cs_pins = cs] :
            sck \in {<<>>, PA0}, mosi \in {<<>>, PZ0}, cs \in {<<>>, <<PA0>>} }

TimerVariants(timer) ==
    IF timer.enabled THEN {timer}
    ELSE { [timer EXCEPT !.mode = mode, !.duty_cycle = duty, !.output_pin = pin,
                         !.prescaler = pre] :
            mode \in {"pwm", "basic"}, duty \in {Num(101), NoneNum},
            pin \in {PA0, PZ0, NoneVal}, pre \in {0, 1} }

\* the configurations that differ from cfg only in the fields of its
\* disabled second entries
InertVariants(cfg) ==
    { [cfg EXCEPT !.uart[2] = u, !.i2c[2] = i, !.spi[2] = sp, !.timers[2] = t] :
        u \in UartVariants(cfg.uart[2]), i \in I2cVariants(cfg.i2c[2]),
        sp \in SpiVariants(cfg.spi[2]), t \in TimerVariants(cfg.timers[2]) }

\* the three checkers on one configuration, each on a fresh validator
ThreeCheckers(cfg) ==
    << Let1(LAMBDA pin : [result |-> pin.result, raised |-> pin.raised],
            PinValidate(mcu_specs_cache, NewDetector, cfg)),
       McuValidate(mcu_specs_cache, cfg),
       PeripheralValidate(cfg) >>

InertCall(cfg, other) ==
    /\ last_call' = [op |-> "inert", config |-> cfg, other |-> other,
                     out |-> ThreeCheckers(cfg), out_other |-> ThreeCheckers(other)]
    /\ UNCHANGED <<results, pin_mappings, conflicts, history, runVars, threads>>

NextInert ==
    last_call.op = "none"
        /\ \E cfg \in InertBases : \E other \in InertVariants(cfg) : InertCall(cfg, other)

SpecInert == Init /\ [][NextInert]_vars

\* C21: two configurations that differ only in the fields of disabled UART,
\* I2C, SPI or Timer entries get the same messages, in the same order, from
\* the pin checker, the MCU checker and the peripheral checker.
C21_DisabledInert ==
    last_call.op = "inert" =>
        \A k \in 1..3 :
            /\ last_call.out[k].result.messages = last_call.out_other[k].result.messages
            /\ last_call.out[k].raised = last_call.out_other[k].raised

\* C21 witness: the second entry of every kind is disabled and differs in
\* pins, devices, addresses and timer parameters, and the checkers report
\* the conflict of the enabled entries
C21_Witness ==
    /\ last_call.op = "inert"
    /\ \A kind \in {"uart", "i2c", "spi", "timers"} :
            /\ ~last_call.config[kind][2].enabled
            /\ last_call.config[kind][2] # last_call.other[kind][2]
    /\ last_call.other.timers[2].output_pin = PZ0
    /\ last_call.other.timers[2].mode = "pwm"
    /\ last_call.other.i2c[2].devices # <<>>
    /\ last_call.out[1].result.messages # <<>>
    /\ last_call.out[3].raised = <<>>

====
